---- MODULE Spec2Model ----
(***************************************************************************)
(* Voice-segmentation state machines of MukeshRaiJ/speech2text.            *)
(*                                                                         *)
(* Part I  : RealtimeSpeechToText, the variant with a max-duration timer   *)
(*           and a chained processing queue (src/unnamed/part_001, lines   *)
(*           135-393).                                                     *)
(* Part II : RealtimeSpeechToText of src/src/app/page.tsx (lines 461-756), *)
(*           whose onstop handler awaits the transcription call.           *)
(*                                                                         *)
(* Scheduling model: one JavaScript event loop.  Every action is one task  *)
(* (a callback run to completion) or the part of an async function between *)
(* two awaits.  Time is a discrete clock `now` in milliseconds; a timer    *)
(* whose deadline has been reached runs before the clock advances again,   *)
(* other tasks of the same instant may run before or after it.  Queued     *)
(* tasks and awaited collaborators run or settle after any delay.          *)
(*                                                                         *)
(* Presentation-only React state (isListening, isRecording,                *)
(* lastResponseTime, partialTranscript) is read by no handler and is left  *)
(* out.                                                                    *)
(***************************************************************************)
EXTENDS Integers, Sequences, FiniteSets, TLC

\* ---------------------------------------------------------------- constants
\* part_001:25  (0.4, in hundredths)
VOICE_PROBABILITY_THRESHOLD == 40
\* part_001:26-29 (milliseconds; RECORDING_CHUNK_SIZE is the recorder's timeslice)
SILENCE_DURATION_THRESHOLD == 750
MIN_RECORDING_DURATION == 250
MAX_RECORDING_DURATION == 3000
RECORDING_CHUNK_SIZE == 250

\* ------------------------------------------------------------------- bounds
MaxTime == 750         \* the clock stops advancing here (Spec); below MAX_RECORDING_DURATION
MaxTimeLong == 3250    \* the same for SpecLong, past MAX_RECORDING_DURATION
MaxSessions == 2       \* MediaRecorder instances created
MaxChunks == 1         \* timeslice chunks delivered before a session's stop
MaxPending == 1        \* startListening / stopListening calls suspended at their await
MaxJobs == 3           \* clips submitted (SpecQueue)
MaxTimePage == 1500    \* the clock stops advancing here (SpecPage)
MaxTimeStop == 1500    \* the clock stops advancing here (SpecStop)
MaxTimeIndex == 2000   \* the clock stops advancing here (SpecIndex)
MaxIndexRecs == 3      \* MediaRecorder instances created by Index
IndexRecs == 1..MaxIndexRecs
MaxVads == 2           \* VAD instances created by Index
MaxConns == 2          \* connections accepted by the relay server
MaxAudio == 2          \* audio messages received by the relay server
MaxBad == 1            \* unparsable messages answered per connection
MaxTimeRelay == 1000   \* the clock stops advancing here (SpecRelay)
MaxTimeSweep == 60000  \* the clock stops advancing here (SpecSweep)
MaxTimeAssembly == 3000  \* the clock stops advancing here (SpecAssembly)
MaxTimeClips == 1500     \* the clock stops advancing here (SpecClips)
Conns == 1..MaxConns
\* server.js:29-31 (milliseconds, bytes)
PING_INTERVAL == 30000
AUDIO_CHUNK_TIMEOUT == 500
MAX_BUFFER_SIZE == 1048576   \* 1024 * 1024

\* the clock advances by one silence period at a time
TickLong == SILENCE_DURATION_THRESHOLD
\* Date.now() is far from 0, so that `Date.now() - 0 >= MIN_RECORDING_DURATION`
Epoch == MIN_RECORDING_DURATION

\* null timestamp or timer handle
Null == 0 - 1
\* error === null
NoError == "null"
Recs == 1..MaxSessions
Probs == {VOICE_PROBABILITY_THRESHOLD - 1, VOICE_PROBABILITY_THRESHOLD,
          VOICE_PROBABILITY_THRESHOLD + 1}
\* getEnvVariables (part_001:107-111) returns two non-empty literals
HasPicovoiceKey == TRUE
HasSarvamKey == TRUE

VARIABLES
  now,                    \* clock, ms since the component mounted
  initRun,                \* the mount effect's initializeVoiceDetector has run
  isInitialized, error,   \* React state
  streamRef, cobraRef, audioContextRef,      \* TRUE = non-null
  isListeningRef,
  pendingStart, pendingStop,   \* startListening / stopListening calls suspended at their await
  isRecordingRef,
  mediaRecorderRef,       \* 0 = null, else the id of a MediaRecorder
  recState,               \* MediaRecorder.state of each instance ("none" = not created)
  stopTask,               \* queued dataavailable+stop tasks of each instance
  chunksRef,              \* sequence of chunks; a chunk is <<recorder, number of the chunk>>
  delivered,              \* per recorder: non-empty chunks it has delivered in the session in progress
  recordingStartTimeRef,  \* Null or a Date.now() value
  silenceTimers,          \* deadlines of the armed silence timers
  silenceTimeoutRef,      \* Null or the handle (deadline) of a silence timer
  maxTimer,               \* per recorder: deadline of the armed max-duration timer closed over it
  recordingTimeoutRef,    \* 0 = null, else the handle (recorder id) of a max-duration timer
  nRec,                   \* MediaRecorder instances created so far
  jobs,                   \* processAndSendAudio calls, in submission order
  processingQueueRef,     \* index in jobs of the promise at the tail of the chain, 0 = Promise.resolve()
  transcription,          \* <<>> = null, else <<[transcript, timestamps]>>
  isProcessing,
  released,               \* the unmount cleanup has run
  \* history variables, read by no handler
  voicedPastMin,          \* a sample >= MIN_RECORDING_DURATION after the current session's start was voiced
  debounced,              \* a voiced sample cancelled an armed silence timer of the current session
  stopBy,                 \* who issued the latest stop() that stopped a recorder
  stopAttempts,           \* callers of stopRecording since the current recorder was created
  onstops,                \* per recorder: how often its onstop handler has run
  \* Part II: the refs and state of page.tsx:462-479, modelled as in Part I
  pg_initRun, pg_isInitialized, pg_error, pg_streamRef, pg_cobraRef,
  pg_isListeningRef, pg_pendingStart, pg_pendingStop, pg_isRecordingRef,
  pg_mediaRecorderRef, pg_recState, pg_stopTask, pg_chunksRef,
  pg_recordingStartTimeRef, pg_silenceTimers, pg_silenceTimeoutRef, pg_nRec,
  pg_transcription, pg_isProcessing,
  pg_onstop,              \* per recorder: where its async onstop handler stands
  \* Part III: the refs and state of VoiceDetector (page.tsx:19-34)
  vd_initRun, vd_isInitialized, vd_error, vd_streamRef, vd_cobraRef,
  vd_isListeningRef, vd_pendingStart, vd_pendingStop, vd_isRecordingRef,
  vd_mediaRecorderRef, vd_recState, vd_stopTask, vd_audioChunksRef,
  vd_recordingStartTimeRef, vd_silenceTimers, vd_silenceTimeoutRef, vd_nRec,
  vd_startTime,           \* per recorder: the startTime its onstop closure holds
  vd_audioClips,          \* the clips, newest first
  vd_latestClip,          \* <<>> for null, else <<clip>>
  \* Part IV: the state and refs of Index (speech2tex.tsx:7-22)
  ix_isListening, ix_isRecording, ix_audioPackets,
  ix_memoListening,       \* isListening as closed over by the startRecording that startListening holds
  ix_pendingStart,        \* closures of the startListening calls suspended at getUserMedia
  ix_vads,                \* the VAD instances created: [alive, isRecording, isListening] as closed over
  ix_streamRef,           \* TRUE = non-null
  ix_mediaRecorderRef, ix_recState, ix_stopTask, ix_nRec,
  ix_recListening,        \* per recorder: isListening as closed over by its onstop
  ix_audioChunksRef, ix_currentRecordingStartTime,
  ix_silenceStartRef, ix_isLongPauseRef,
  ix_pauseTimers,         \* deadlines of the armed pause timers
  ix_pauseTimeoutRef,     \* Null or the handle (deadline) of the last pause timer set
  \* Part V: the relay server (server.js)
  sv_clients,             \* the keys of the `clients` map
  sv_sock,                \* per connection: "none" (not yet connected), "open", "closed" or "terminated"
  sv_isAlive, sv_buffer,  \* per connection: client.isAlive, client.currentAudioBuffer
  sv_timers,              \* per connection: the deadlines of its armed processing timers
  sv_timeoutVar,          \* per connection: audioProcessingTimeout, Null or the handle (deadline) last set
  sv_requests,            \* the processAudio calls, in the order they were made
  sv_out,                 \* per connection: the 'transcript' and 'error' messages sent, in order
  sv_nextSweep,           \* when the setInterval callback runs next
  sv_nAudio,              \* audio messages received so far
  \* history variables, read by no handler
  sv_pinged,              \* per connection: a 'ping' message arrived since the last sweep
  sv_swept,               \* per connection: it was in the table at the last sweep and stayed
  \* Part VI: the state and refs of VoiceDetector (speech2tex.tsx:226-238), one field each
  sd,
  \* Part VII: the state and refs of the AssemblyAI VoiceDetector (part_001:698-711), one field each
  av

vars == <<now, initRun, isInitialized, error, streamRef, cobraRef, audioContextRef,
          isListeningRef, pendingStart, pendingStop, isRecordingRef,
          mediaRecorderRef, recState, stopTask, chunksRef, delivered,
          recordingStartTimeRef, silenceTimers, silenceTimeoutRef, maxTimer,
          recordingTimeoutRef, nRec, jobs, processingQueueRef, transcription,
          isProcessing, released, voicedPastMin, debounced, stopBy,
          stopAttempts, onstops, pg_initRun, pg_isInitialized, pg_error,
          pg_streamRef, pg_cobraRef, pg_isListeningRef, pg_pendingStart,
          pg_pendingStop, pg_isRecordingRef, pg_mediaRecorderRef, pg_recState,
          pg_stopTask, pg_chunksRef, pg_recordingStartTimeRef, pg_silenceTimers,
          pg_silenceTimeoutRef, pg_nRec, pg_transcription, pg_isProcessing,
          pg_onstop, vd_initRun, vd_isInitialized, vd_error, vd_streamRef,
          vd_cobraRef, vd_isListeningRef, vd_pendingStart, vd_pendingStop,
          vd_isRecordingRef, vd_mediaRecorderRef, vd_recState, vd_stopTask,
          vd_audioChunksRef, vd_recordingStartTimeRef, vd_silenceTimers,
          vd_silenceTimeoutRef, vd_nRec, vd_startTime, vd_audioClips,
          vd_latestClip, ix_isListening, ix_isRecording, ix_audioPackets,
          ix_memoListening, ix_pendingStart, ix_vads, ix_streamRef,
          ix_mediaRecorderRef, ix_recState, ix_stopTask, ix_nRec,
          ix_recListening, ix_audioChunksRef, ix_currentRecordingStartTime,
          ix_silenceStartRef, ix_isLongPauseRef, ix_pauseTimers,
          ix_pauseTimeoutRef, sv_clients, sv_sock, sv_isAlive, sv_buffer,
          sv_timers, sv_timeoutVar, sv_requests, sv_out, sv_nextSweep,
          sv_nAudio, sv_pinged, sv_swept, sd, av>>

\* what startRecording may assign
startVars == <<mediaRecorderRef, recState, chunksRef, recordingStartTimeRef,
               isRecordingRef, recordingTimeoutRef, maxTimer, nRec, error,
               stopAttempts>>
\* what stopRecording may assign
stopVars == <<recState, stopTask, stopBy, stopAttempts, maxTimer, recordingTimeoutRef,
              jobs, processingQueueRef>>

DateNow == Epoch + now

\* the component after its first render (page.tsx:462-479)
PageInit ==
  /\ pg_initRun = FALSE
  /\ pg_isInitialized = FALSE
  /\ pg_error = NoError
  /\ pg_streamRef = FALSE
  /\ pg_cobraRef = FALSE
  /\ pg_isListeningRef = FALSE
  /\ pg_pendingStart = 0
  /\ pg_pendingStop = 0
  /\ pg_isRecordingRef = FALSE
  /\ pg_mediaRecorderRef = 0
  /\ pg_recState = [r \in Recs |-> "none"]
  /\ pg_stopTask = [r \in Recs |-> 0]
  /\ pg_onstop = [r \in Recs |-> "idle"]
  /\ pg_chunksRef = <<>>
  /\ pg_recordingStartTimeRef = Null
  /\ pg_silenceTimers = {}
  /\ pg_silenceTimeoutRef = Null
  /\ pg_nRec = 0
  /\ pg_transcription = <<>>
  /\ pg_isProcessing = FALSE

\* VoiceDetector after its first render (page.tsx:19-34)
DetectorInit ==
  /\ vd_initRun = FALSE
  /\ vd_isInitialized = FALSE
  /\ vd_error = NoError
  /\ vd_streamRef = FALSE
  /\ vd_cobraRef = FALSE
  /\ vd_isListeningRef = FALSE
  /\ vd_pendingStart = 0
  /\ vd_pendingStop = 0
  /\ vd_isRecordingRef = FALSE
  /\ vd_mediaRecorderRef = 0
  /\ vd_recState = [r \in Recs |-> "none"]
  /\ vd_stopTask = [r \in Recs |-> 0]
  /\ vd_audioChunksRef = <<>>
  /\ vd_recordingStartTimeRef = Null
  /\ vd_silenceTimers = {}
  /\ vd_silenceTimeoutRef = Null
  /\ vd_nRec = 0
  /\ vd_startTime = [r \in Recs |-> Null]
  /\ vd_audioClips = <<>>
  /\ vd_latestClip = <<>>

\* Index after its first render (speech2tex.tsx:7-22)
IndexInit ==
  /\ ix_isListening = FALSE
  /\ ix_isRecording = FALSE
  /\ ix_audioPackets = <<>>
  /\ ix_memoListening = FALSE
  /\ ix_pendingStart = <<>>
  /\ ix_vads = <<>>
  /\ ix_streamRef = FALSE
  /\ ix_mediaRecorderRef = 0
  /\ ix_recState = [r \in IndexRecs |-> "none"]
  /\ ix_stopTask = [r \in IndexRecs |-> 0]
  /\ ix_nRec = 0
  /\ ix_recListening = [r \in IndexRecs |-> FALSE]
  /\ ix_audioChunksRef = <<>>
  /\ ix_currentRecordingStartTime = 0
  /\ ix_silenceStartRef = Null
  /\ ix_isLongPauseRef = FALSE
  /\ ix_pauseTimers = {}
  /\ ix_pauseTimeoutRef = Null

\* the relay server after start-up (server.js:28, 179-190)
ServerInit ==
  /\ sv_clients = {}
  /\ sv_sock = [c \in Conns |-> "none"]
  /\ sv_isAlive = [c \in Conns |-> FALSE]
  /\ sv_buffer = [c \in Conns |-> <<>>]
  /\ sv_timers = [c \in Conns |-> {}]
  /\ sv_timeoutVar = [c \in Conns |-> Null]
  /\ sv_requests = <<>>
  /\ sv_out = [c \in Conns |-> <<>>]
  /\ sv_nextSweep = PING_INTERVAL
  /\ sv_nAudio = 0
  /\ sv_pinged = [c \in Conns |-> FALSE]
  /\ sv_swept = [c \in Conns |-> FALSE]

\* VoiceDetector of speech2tex.tsx after its first render (225-237)
ClipDetectorInit ==
  sd = [initRun |-> FALSE, isInitialized |-> FALSE, isListening |-> FALSE,
        isRecording |-> FALSE, error |-> NoError, cobra |-> FALSE,
        streamRef |-> FALSE, currentProbability |-> 0,
        voiceDetected |-> {},       \* the arguments of the onVoiceDetected calls
        mediaRecorderRef |-> 0, recState |-> [r \in Recs |-> "none"],
        stopTask |-> [r \in Recs |-> 0], nRec |-> 0,
        audioChunksRef |-> <<>>, recordingStartTimeRef |-> Null,
        silenceTimers |-> {}, silenceTimeoutRef |-> Null,
        audioClips |-> <<>>,
        pendingStart |-> 0,         \* startListening calls suspended at their await
        pendingStop |-> <<>>]       \* isRecording as seen by the suspended stopListening calls

\* the AssemblyAI VoiceDetector after its first render (part_001:698-711)
AssemblyInit ==
  av = [clientEffectRun |-> FALSE, initRun |-> FALSE,
        hasKey |-> FALSE,           \* ASSEMBLY_API_KEY is set; read when the mount effect runs
        assemblyClientRef |-> FALSE, isInitialized |-> FALSE, error |-> NoError,
        streamRef |-> FALSE, cobraRef |-> FALSE,
        isListeningRef |-> FALSE, isRecordingRef |-> FALSE,
        mediaRecorderRef |-> 0, recState |-> [r \in Recs |-> "none"],
        stopTask |-> [r \in Recs |-> 0], nRec |-> 0,
        startTime |-> [r \in Recs |-> 0],   \* per recorder: the startTime its onstop closure holds
        audioChunksRef |-> <<>>, recordingStartTimeRef |-> Null,
        silenceTimers |-> {}, silenceTimeoutRef |-> Null,
        audioClips |-> <<>>,        \* newest first
        latestClip |-> <<>>,        \* <<>> = null
        inFlight |-> {},            \* ids of the clips whose transcribe request has not settled
        unhandled |-> {},           \* ids of the clips whose transcribeAudio promise rejected
        pendingStart |-> 0, pendingStop |-> 0]

\* the components after their first render (part_001:136-156)
Init ==
  /\ PageInit
  /\ DetectorInit
  /\ IndexInit
  /\ ServerInit
  /\ ClipDetectorInit
  /\ AssemblyInit
  /\ now = 0
  /\ initRun = FALSE
  /\ isInitialized = FALSE
  /\ error = NoError
  /\ streamRef = FALSE
  /\ cobraRef = FALSE
  /\ audioContextRef = FALSE
  /\ isListeningRef = FALSE
  /\ pendingStart = 0
  /\ pendingStop = 0
  /\ isRecordingRef = FALSE
  /\ mediaRecorderRef = 0
  /\ recState = [r \in Recs |-> "none"]
  /\ stopTask = [r \in Recs |-> 0]
  /\ chunksRef = <<>>
  /\ delivered = [r \in Recs |-> 0]
  /\ recordingStartTimeRef = Null
  /\ silenceTimers = {}
  /\ silenceTimeoutRef = Null
  /\ maxTimer = [r \in Recs |-> Null]
  /\ recordingTimeoutRef = 0
  /\ nRec = 0
  /\ jobs = <<>>
  /\ processingQueueRef = 0
  /\ transcription = <<>>
  /\ isProcessing = FALSE
  /\ released = FALSE
  /\ voicedPastMin = FALSE
  /\ debounced = FALSE
  /\ stopBy = "none"
  /\ stopAttempts = {}
  /\ onstops = [r \in Recs |-> 0]

\* ------------------------------------------------------------ initialization
InitOutcomes == {"ok", "micDenied", "cobraFail"}

\* initializeVoiceDetector (part_001:214-259), run once by the mount effect.
\* Before it ends no handler can run (no cobra callback, startListening
\* returns at its guard), so its awaits are not interleaving points.
InitializeVoiceDetector(outcome) ==
  /\ ~initRun
  /\ initRun' = TRUE
  /\ IF ~HasPicovoiceKey
       THEN /\ error' = "Picovoice access key not configured"
            /\ UNCHANGED <<audioContextRef, streamRef, cobraRef, isInitialized>>
       ELSE /\ audioContextRef' = TRUE
            /\ streamRef' = (outcome # "micDenied")
            /\ cobraRef' = (outcome = "ok")
            /\ isInitialized' = (outcome = "ok")
            /\ error' = IF outcome = "ok" THEN NoError ELSE outcome
  /\ UNCHANGED <<now, isListeningRef, pendingStart, pendingStop, isRecordingRef,
                 mediaRecorderRef, recState, stopTask, chunksRef, delivered,
                 recordingStartTimeRef, silenceTimers, silenceTimeoutRef, maxTimer,
                 recordingTimeoutRef, nRec, jobs, processingQueueRef, transcription,
                 isProcessing, released, voicedPastMin, debounced, stopBy,
                 stopAttempts, onstops, pg_initRun, pg_isInitialized, pg_error,
                 pg_streamRef, pg_cobraRef, pg_isListeningRef, pg_pendingStart,
                 pg_pendingStop, pg_isRecordingRef, pg_mediaRecorderRef, pg_recState,
                 pg_stopTask, pg_chunksRef, pg_recordingStartTimeRef, pg_silenceTimers,
                 pg_silenceTimeoutRef, pg_nRec, pg_transcription, pg_isProcessing,
                 pg_onstop, vd_initRun, vd_isInitialized, vd_error, vd_streamRef,
                 vd_cobraRef, vd_isListeningRef, vd_pendingStart, vd_pendingStop,
                 vd_isRecordingRef, vd_mediaRecorderRef, vd_recState, vd_stopTask,
                 vd_audioChunksRef, vd_recordingStartTimeRef, vd_silenceTimers,
                 vd_silenceTimeoutRef, vd_nRec, vd_startTime, vd_audioClips,
                 vd_latestClip, ix_isListening, ix_isRecording, ix_audioPackets,
                 ix_memoListening, ix_pendingStart, ix_vads, ix_streamRef,
                 ix_mediaRecorderRef, ix_recState, ix_stopTask, ix_nRec,
                 ix_recListening, ix_audioChunksRef, ix_currentRecordingStartTime,
                 ix_silenceStartRef, ix_isLongPauseRef, ix_pauseTimers,
                 ix_pauseTimeoutRef, sv_clients, sv_sock, sv_isAlive, sv_buffer,
                 sv_timers, sv_timeoutVar, sv_requests, sv_out, sv_nextSweep,
                 sv_nAudio, sv_pinged, sv_swept, sd, av>>

\* ---------------------------------------------------------------- dispatcher
\* State of the promise a job is chained to; 0 is the initial Promise.resolve()
\* (part_001:156).
PromiseOf(j) == IF j = 0 THEN "fulfilled" ELSE jobs[j].promise

\* faulty variant: newProcessing is called at once instead of being chained
ProcessAndSendAudio_Unchained(audioBlob, r) ==
  /\ jobs' = Append(jobs, [session |-> r, blob |-> audioBlob, status |-> "queued",
                           promise |-> "pending", pred |-> 0, waited |-> FALSE])
  /\ processingQueueRef' = Len(jobs) + 1

\* processAndSendAudio (part_001:158-212): newProcessing is chained to the
\* tail of processingQueueRef and the call returns.
ProcessAndSendAudio(audioBlob, r) ==
  /\ jobs' = Append(jobs, [session |-> r, blob |-> audioBlob, status |-> "queued",
                           promise |-> "pending", pred |-> processingQueueRef,
                           waited |-> PromiseOf(processingQueueRef) = "pending"])
  /\ processingQueueRef' = Len(jobs) + 1

\* faulty variant: the catch block rethrows, so the chained promise is rejected
CatchTranscriptionError_Rethrows(j, message) ==
  /\ jobs' = [jobs EXCEPT ![j].status = "failed", ![j].promise = "rejected"]
  /\ error' = message
  /\ isProcessing' = FALSE
  /\ UNCHANGED transcription

\* the catch block of newProcessing (part_001:204-208); the async function
\* then returns normally, so its promise is fulfilled
CatchTranscriptionError(j, message) ==
  /\ jobs' = [jobs EXCEPT ![j].status = "failed", ![j].promise = "fulfilled"]
  /\ error' = message
  /\ isProcessing' = FALSE
  /\ UNCHANGED transcription

\* `.then(newProcessing)` for job j (part_001:211) once the promise it is
\* chained to has settled: on a rejected promise newProcessing is skipped and
\* the rejection passed on; otherwise newProcessing runs up to the fetch
\* (part_001:160-185).  blobToAudioBuffer and audioBufferToWav touch no
\* shared state, so decoding is one step with the start of the request.
NewProcessingBegin(j, decodeOk) ==
  /\ j \in 1..Len(jobs)
  /\ jobs[j].status = "queued"
  /\ PromiseOf(jobs[j].pred) # "pending"
  /\ IF PromiseOf(jobs[j].pred) = "rejected"
       THEN /\ jobs' = [jobs EXCEPT ![j].status = "poisoned", ![j].promise = "rejected"]
            /\ UNCHANGED <<error, isProcessing, transcription>>
       ELSE IF ~HasSarvamKey \/ ~audioContextRef
         THEN /\ jobs' = [jobs EXCEPT ![j].status = "skipped", ![j].promise = "fulfilled"]
              /\ isProcessing' = TRUE
              /\ UNCHANGED <<error, transcription>>
         ELSE IF decodeOk
           THEN /\ jobs' = [jobs EXCEPT ![j].status = "fetching"]
                /\ isProcessing' = TRUE
                /\ UNCHANGED <<error, transcription>>
           ELSE CatchTranscriptionError(j, "decode")
  /\ UNCHANGED <<now, initRun, isInitialized, streamRef, cobraRef, audioContextRef,
                 isListeningRef, pendingStart, pendingStop, isRecordingRef,
                 mediaRecorderRef, recState, stopTask, chunksRef, delivered,
                 recordingStartTimeRef, silenceTimers, silenceTimeoutRef, maxTimer,
                 recordingTimeoutRef, nRec, processingQueueRef, released,
                 voicedPastMin, debounced, stopBy, stopAttempts, onstops, pg_initRun,
                 pg_isInitialized, pg_error, pg_streamRef, pg_cobraRef,
                 pg_isListeningRef, pg_pendingStart, pg_pendingStop, pg_isRecordingRef,
                 pg_mediaRecorderRef, pg_recState, pg_stopTask, pg_chunksRef,
                 pg_recordingStartTimeRef, pg_silenceTimers, pg_silenceTimeoutRef,
                 pg_nRec, pg_transcription, pg_isProcessing, pg_onstop, vd_initRun,
                 vd_isInitialized, vd_error, vd_streamRef, vd_cobraRef,
                 vd_isListeningRef, vd_pendingStart, vd_pendingStop, vd_isRecordingRef,
                 vd_mediaRecorderRef, vd_recState, vd_stopTask, vd_audioChunksRef,
                 vd_recordingStartTimeRef, vd_silenceTimers, vd_silenceTimeoutRef,
                 vd_nRec, vd_startTime, vd_audioClips, vd_latestClip, ix_isListening,
                 ix_isRecording, ix_audioPackets, ix_memoListening, ix_pendingStart,
                 ix_vads, ix_streamRef, ix_mediaRecorderRef, ix_recState, ix_stopTask,
                 ix_nRec, ix_recListening, ix_audioChunksRef,
                 ix_currentRecordingStartTime, ix_silenceStartRef, ix_isLongPauseRef,
                 ix_pauseTimers, ix_pauseTimeoutRef, sv_clients, sv_sock, sv_isAlive,
                 sv_buffer, sv_timers, sv_timeoutVar, sv_requests, sv_out,
                 sv_nextSweep, sv_nAudio, sv_pinged, sv_swept, sd, av>>

FetchOutcomes == {"ok", "network", "status", "json"}
\* data.transcript of job j's response: one token naming the job
TranscriptOf(j) == <<j>>
\* the " " of the template literal (part_001:198)
Space == <<0>>

\* the fetch of job j settles and newProcessing runs to its end
\* (part_001:187-208)
NewProcessingEnd(j, outcome) ==
  /\ j \in 1..Len(jobs)
  /\ jobs[j].status = "fetching"
  /\ IF outcome = "ok"
       THEN /\ transcription' =
                 <<[transcript |-> IF transcription # <<>>
                                     THEN transcription[1].transcript \o Space
                                            \o TranscriptOf(j)
                                     ELSE TranscriptOf(j),
                    timestamps |-> j]>>
            /\ isProcessing' = FALSE
            /\ jobs' = [jobs EXCEPT ![j].status = "succeeded", ![j].promise = "fulfilled"]
            /\ UNCHANGED error
       ELSE CatchTranscriptionError(j, outcome)
  /\ UNCHANGED <<now, initRun, isInitialized, streamRef, cobraRef, audioContextRef,
                 isListeningRef, pendingStart, pendingStop, isRecordingRef,
                 mediaRecorderRef, recState, stopTask, chunksRef, delivered,
                 recordingStartTimeRef, silenceTimers, silenceTimeoutRef, maxTimer,
                 recordingTimeoutRef, nRec, processingQueueRef, released,
                 voicedPastMin, debounced, stopBy, stopAttempts, onstops, pg_initRun,
                 pg_isInitialized, pg_error, pg_streamRef, pg_cobraRef,
                 pg_isListeningRef, pg_pendingStart, pg_pendingStop, pg_isRecordingRef,
                 pg_mediaRecorderRef, pg_recState, pg_stopTask, pg_chunksRef,
                 pg_recordingStartTimeRef, pg_silenceTimers, pg_silenceTimeoutRef,
                 pg_nRec, pg_transcription, pg_isProcessing, pg_onstop, vd_initRun,
                 vd_isInitialized, vd_error, vd_streamRef, vd_cobraRef,
                 vd_isListeningRef, vd_pendingStart, vd_pendingStop, vd_isRecordingRef,
                 vd_mediaRecorderRef, vd_recState, vd_stopTask, vd_audioChunksRef,
                 vd_recordingStartTimeRef, vd_silenceTimers, vd_silenceTimeoutRef,
                 vd_nRec, vd_startTime, vd_audioClips, vd_latestClip, ix_isListening,
                 ix_isRecording, ix_audioPackets, ix_memoListening, ix_pendingStart,
                 ix_vads, ix_streamRef, ix_mediaRecorderRef, ix_recState, ix_stopTask,
                 ix_nRec, ix_recListening, ix_audioChunksRef,
                 ix_currentRecordingStartTime, ix_silenceStartRef, ix_isLongPauseRef,
                 ix_pauseTimers, ix_pauseTimeoutRef, sv_clients, sv_sock, sv_isAlive,
                 sv_buffer, sv_timers, sv_timeoutVar, sv_requests, sv_out,
                 sv_nextSweep, sv_nAudio, sv_pinged, sv_swept, sd, av>>

\* a finalized session hands its clip over: the call at part_001:318, for the
\* k-th clip of a run
SubmitClip ==
  /\ Len(jobs) < MaxJobs
  /\ ProcessAndSendAudio(<< <<Len(jobs) + 1, 1>> >>, Len(jobs) + 1)
  /\ UNCHANGED <<now, initRun, isInitialized, error, streamRef, cobraRef,
                 audioContextRef, isListeningRef, pendingStart, pendingStop,
                 isRecordingRef, mediaRecorderRef, recState, stopTask, chunksRef,
                 delivered, recordingStartTimeRef, silenceTimers, silenceTimeoutRef,
                 maxTimer, recordingTimeoutRef, nRec, transcription, isProcessing,
                 released, voicedPastMin, debounced, stopBy, stopAttempts, onstops,
                 pg_initRun, pg_isInitialized, pg_error, pg_streamRef, pg_cobraRef,
                 pg_isListeningRef, pg_pendingStart, pg_pendingStop, pg_isRecordingRef,
                 pg_mediaRecorderRef, pg_recState, pg_stopTask, pg_chunksRef,
                 pg_recordingStartTimeRef, pg_silenceTimers, pg_silenceTimeoutRef,
                 pg_nRec, pg_transcription, pg_isProcessing, pg_onstop, vd_initRun,
                 vd_isInitialized, vd_error, vd_streamRef, vd_cobraRef,
                 vd_isListeningRef, vd_pendingStart, vd_pendingStop, vd_isRecordingRef,
                 vd_mediaRecorderRef, vd_recState, vd_stopTask, vd_audioChunksRef,
                 vd_recordingStartTimeRef, vd_silenceTimers, vd_silenceTimeoutRef,
                 vd_nRec, vd_startTime, vd_audioClips, vd_latestClip, ix_isListening,
                 ix_isRecording, ix_audioPackets, ix_memoListening, ix_pendingStart,
                 ix_vads, ix_streamRef, ix_mediaRecorderRef, ix_recState, ix_stopTask,
                 ix_nRec, ix_recListening, ix_audioChunksRef,
                 ix_currentRecordingStartTime, ix_silenceStartRef, ix_isLongPauseRef,
                 ix_pauseTimers, ix_pauseTimeoutRef, sv_clients, sv_sock, sv_isAlive,
                 sv_buffer, sv_timers, sv_timeoutVar, sv_requests, sv_out,
                 sv_nextSweep, sv_nAudio, sv_pinged, sv_swept, sd, av>>

\* ------------------------------------------------------------------ recorder
\* faulty variant: stopRecording also hands the chunks gathered so far to the
\* dispatcher, and onstop hands them over again
StopRecordingWith_AlsoSubmits(timers, cause) ==
  LET m == mediaRecorderRef
      rec == m # 0 /\ recState[m] = "recording"
  IN /\ recState' = IF rec THEN [recState EXCEPT ![m] = "inactive"] ELSE recState
     /\ stopTask' = IF rec THEN [stopTask EXCEPT ![m] = @ + 1] ELSE stopTask
     /\ stopBy' = IF rec THEN cause ELSE stopBy
     /\ stopAttempts' = stopAttempts \cup {cause}
     /\ maxTimer' = IF recordingTimeoutRef # 0
                      THEN [timers EXCEPT ![recordingTimeoutRef] = Null]
                      ELSE timers
     /\ recordingTimeoutRef' = 0
     /\ IF rec /\ Len(chunksRef) > 0
          THEN ProcessAndSendAudio(chunksRef, m)
          ELSE UNCHANGED <<jobs, processingQueueRef>>

\* stopRecording (part_001:340-348).  `timers` is the max-duration timer table
\* as the caller found it (a firing timer has already left it).
\* MediaRecorder.stop(): state becomes "inactive" at once, and one task that
\* fires dataavailable and then stop is queued.
StopRecordingWith(timers, cause) ==
  LET m == mediaRecorderRef
      rec == m # 0 /\ recState[m] = "recording"
  IN /\ recState' = IF rec THEN [recState EXCEPT ![m] = "inactive"] ELSE recState
     /\ stopTask' = IF rec THEN [stopTask EXCEPT ![m] = @ + 1] ELSE stopTask
     /\ stopBy' = IF rec THEN cause ELSE stopBy
     /\ stopAttempts' = stopAttempts \cup {cause}
     /\ maxTimer' = IF recordingTimeoutRef # 0
                      THEN [timers EXCEPT ![recordingTimeoutRef] = Null]
                      ELSE timers
     /\ recordingTimeoutRef' = 0
     /\ UNCHANGED <<jobs, processingQueueRef>>

StartOutcomes == {"ok", "ctorThrows", "startThrows"}

\* faulty variant: the max-duration timer is never armed
StartRecordingBody_NoMaxTimer(outcome) ==
  IF outcome = "ctorThrows"
    THEN /\ error' = "Failed to start recording"
         /\ UNCHANGED <<mediaRecorderRef, recState, chunksRef, recordingStartTimeRef,
                        isRecordingRef, recordingTimeoutRef, maxTimer, nRec,
                        stopAttempts>>
    ELSE /\ nRec < MaxSessions
         /\ nRec' = nRec + 1
         /\ mediaRecorderRef' = nRec + 1
         /\ chunksRef' = <<>>
         /\ recordingStartTimeRef' = DateNow
         /\ stopAttempts' = {}
         /\ IF outcome = "startThrows"
              THEN /\ recState' = [recState EXCEPT ![nRec + 1] = "inactive"]
                   /\ error' = "Failed to start recording"
                   /\ UNCHANGED <<isRecordingRef, recordingTimeoutRef, maxTimer>>
              ELSE /\ recState' = [recState EXCEPT ![nRec + 1] = "recording"]
                   /\ isRecordingRef' = TRUE
                   /\ UNCHANGED <<error, recordingTimeoutRef, maxTimer>>

\* faulty variant: isRecordingRef is set before start() is called
StartRecordingBody_FlagBeforeStart(outcome) ==
  IF outcome = "ctorThrows"
    THEN /\ error' = "Failed to start recording"
         /\ UNCHANGED <<mediaRecorderRef, recState, chunksRef, recordingStartTimeRef,
                        isRecordingRef, recordingTimeoutRef, maxTimer, nRec,
                        stopAttempts>>
    ELSE /\ nRec < MaxSessions
         /\ nRec' = nRec + 1
         /\ mediaRecorderRef' = nRec + 1
         /\ chunksRef' = <<>>
         /\ recordingStartTimeRef' = DateNow
         /\ stopAttempts' = {}
         /\ isRecordingRef' = TRUE
         /\ IF outcome = "startThrows"
              THEN /\ recState' = [recState EXCEPT ![nRec + 1] = "inactive"]
                   /\ error' = "Failed to start recording"
                   /\ UNCHANGED <<recordingTimeoutRef, maxTimer>>
              ELSE /\ recState' = [recState EXCEPT ![nRec + 1] = "recording"]
                   /\ recordingTimeoutRef' = nRec + 1
                   /\ maxTimer' = [maxTimer EXCEPT
                                     ![nRec + 1] = now + MAX_RECORDING_DURATION]
                   /\ UNCHANGED error

\* the try block of startRecording (part_001:289-337).
\* outcome: whether `new MediaRecorder` (297) or `start` (326) throws.
StartRecordingBody(outcome) ==
  IF outcome = "ctorThrows"
    THEN /\ error' = "Failed to start recording"
         /\ UNCHANGED <<mediaRecorderRef, recState, chunksRef, recordingStartTimeRef,
                        isRecordingRef, recordingTimeoutRef, maxTimer, nRec,
                        stopAttempts>>
    ELSE /\ nRec < MaxSessions
         /\ nRec' = nRec + 1
         /\ mediaRecorderRef' = nRec + 1
         /\ chunksRef' = <<>>
         /\ recordingStartTimeRef' = DateNow
         /\ stopAttempts' = {}
         /\ IF outcome = "startThrows"
              THEN /\ recState' = [recState EXCEPT ![nRec + 1] = "inactive"]
                   /\ error' = "Failed to start recording"
                   /\ UNCHANGED <<isRecordingRef, recordingTimeoutRef, maxTimer>>
              ELSE /\ recState' = [recState EXCEPT ![nRec + 1] = "recording"]
                   /\ isRecordingRef' = TRUE
                   /\ recordingTimeoutRef' = nRec + 1
                   /\ maxTimer' = [maxTimer EXCEPT
                                     ![nRec + 1] = now + MAX_RECORDING_DURATION]
                   /\ UNCHANGED error

\* startRecording (part_001:285-338); it has no await, so it runs to its end
StartRecording(outcome) ==
  IF ~streamRef \/ (mediaRecorderRef # 0 /\ recState[mediaRecorderRef] = "recording")
    THEN UNCHANGED startVars
    ELSE StartRecordingBody(outcome)

\* history kept by the voiced-sample handler
VoicedHistory ==
  /\ voicedPastMin' =
       IF isRecordingRef /\ recordingStartTimeRef # Null
         THEN voicedPastMin \/ DateNow - recordingStartTimeRef >= MIN_RECORDING_DURATION
         ELSE FALSE
  /\ debounced' = IF isRecordingRef THEN debounced \/ silenceTimeoutRef # Null ELSE FALSE

\* faulty variant: every voiced sample received while listening starts a recorder
HandleVoiceDetected_Unguarded(outcome) ==
  /\ silenceTimers' = IF silenceTimeoutRef # Null
                        THEN silenceTimers \ {silenceTimeoutRef}
                        ELSE silenceTimers
  /\ silenceTimeoutRef' = Null
  /\ IF isListeningRef /\ streamRef
       THEN StartRecordingBody(outcome)
       ELSE UNCHANGED startVars
  /\ VoicedHistory
  /\ UNCHANGED <<now, initRun, isInitialized, streamRef, cobraRef, audioContextRef,
                 isListeningRef, pendingStart, pendingStop, stopTask, delivered, jobs,
                 processingQueueRef, transcription, isProcessing, released, stopBy,
                 onstops, pg_initRun, pg_isInitialized, pg_error, pg_streamRef,
                 pg_cobraRef, pg_isListeningRef, pg_pendingStart, pg_pendingStop,
                 pg_isRecordingRef, pg_mediaRecorderRef, pg_recState, pg_stopTask,
                 pg_chunksRef, pg_recordingStartTimeRef, pg_silenceTimers,
                 pg_silenceTimeoutRef, pg_nRec, pg_transcription, pg_isProcessing,
                 pg_onstop, vd_initRun, vd_isInitialized, vd_error, vd_streamRef,
                 vd_cobraRef, vd_isListeningRef, vd_pendingStart, vd_pendingStop,
                 vd_isRecordingRef, vd_mediaRecorderRef, vd_recState, vd_stopTask,
                 vd_audioChunksRef, vd_recordingStartTimeRef, vd_silenceTimers,
                 vd_silenceTimeoutRef, vd_nRec, vd_startTime, vd_audioClips,
                 vd_latestClip, ix_isListening, ix_isRecording, ix_audioPackets,
                 ix_memoListening, ix_pendingStart, ix_vads, ix_streamRef,
                 ix_mediaRecorderRef, ix_recState, ix_stopTask, ix_nRec,
                 ix_recListening, ix_audioChunksRef, ix_currentRecordingStartTime,
                 ix_silenceStartRef, ix_isLongPauseRef, ix_pauseTimers,
                 ix_pauseTimeoutRef, sv_clients, sv_sock, sv_isAlive, sv_buffer,
                 sv_timers, sv_timeoutVar, sv_requests, sv_out, sv_nextSweep,
                 sv_nAudio, sv_pinged, sv_swept, sd, av>>

\* faulty variant: the handle is forgotten but the timer is not cleared
HandleVoiceDetected_KeepsTimer(outcome) ==
  /\ silenceTimers' = silenceTimers
  /\ silenceTimeoutRef' = Null
  /\ IF ~isRecordingRef /\ isListeningRef /\ streamRef
       THEN StartRecording(outcome)
       ELSE UNCHANGED startVars
  /\ VoicedHistory
  /\ UNCHANGED <<now, initRun, isInitialized, streamRef, cobraRef, audioContextRef,
                 isListeningRef, pendingStart, pendingStop, stopTask, delivered, jobs,
                 processingQueueRef, transcription, isProcessing, released, stopBy,
                 onstops, pg_initRun, pg_isInitialized, pg_error, pg_streamRef,
                 pg_cobraRef, pg_isListeningRef, pg_pendingStart, pg_pendingStop,
                 pg_isRecordingRef, pg_mediaRecorderRef, pg_recState, pg_stopTask,
                 pg_chunksRef, pg_recordingStartTimeRef, pg_silenceTimers,
                 pg_silenceTimeoutRef, pg_nRec, pg_transcription, pg_isProcessing,
                 pg_onstop, vd_initRun, vd_isInitialized, vd_error, vd_streamRef,
                 vd_cobraRef, vd_isListeningRef, vd_pendingStart, vd_pendingStop,
                 vd_isRecordingRef, vd_mediaRecorderRef, vd_recState, vd_stopTask,
                 vd_audioChunksRef, vd_recordingStartTimeRef, vd_silenceTimers,
                 vd_silenceTimeoutRef, vd_nRec, vd_startTime, vd_audioClips,
                 vd_latestClip, ix_isListening, ix_isRecording, ix_audioPackets,
                 ix_memoListening, ix_pendingStart, ix_vads, ix_streamRef,
                 ix_mediaRecorderRef, ix_recState, ix_stopTask, ix_nRec,
                 ix_recListening, ix_audioChunksRef, ix_currentRecordingStartTime,
                 ix_silenceStartRef, ix_isLongPauseRef, ix_pauseTimers,
                 ix_pauseTimeoutRef, sv_clients, sv_sock, sv_isAlive, sv_buffer,
                 sv_timers, sv_timeoutVar, sv_requests, sv_out, sv_nextSweep,
                 sv_nAudio, sv_pinged, sv_swept, sd, av>>

\* faulty variant: no session starts while a transcription is being processed (the
\* `!isProcessing` of the page.tsx variant, page.tsx:543)
HandleVoiceDetected_WaitsForProcessing(outcome) ==
  /\ silenceTimers' = IF silenceTimeoutRef # Null
                        THEN silenceTimers \ {silenceTimeoutRef}
                        ELSE silenceTimers
  /\ silenceTimeoutRef' = Null
  /\ IF ~isRecordingRef /\ isListeningRef /\ streamRef /\ ~isProcessing
       THEN StartRecording(outcome)
       ELSE UNCHANGED startVars
  /\ VoicedHistory
  /\ UNCHANGED <<now, initRun, isInitialized, streamRef, cobraRef, audioContextRef,
                 isListeningRef, pendingStart, pendingStop, stopTask, delivered, jobs,
                 processingQueueRef, transcription, isProcessing, released, stopBy,
                 onstops, pg_initRun, pg_isInitialized, pg_error, pg_streamRef,
                 pg_cobraRef, pg_isListeningRef, pg_pendingStart, pg_pendingStop,
                 pg_isRecordingRef, pg_mediaRecorderRef, pg_recState, pg_stopTask,
                 pg_chunksRef, pg_recordingStartTimeRef, pg_silenceTimers,
                 pg_silenceTimeoutRef, pg_nRec, pg_transcription, pg_isProcessing,
                 pg_onstop, vd_initRun, vd_isInitialized, vd_error, vd_streamRef,
                 vd_cobraRef, vd_isListeningRef, vd_pendingStart, vd_pendingStop,
                 vd_isRecordingRef, vd_mediaRecorderRef, vd_recState, vd_stopTask,
                 vd_audioChunksRef, vd_recordingStartTimeRef, vd_silenceTimers,
                 vd_silenceTimeoutRef, vd_nRec, vd_startTime, vd_audioClips,
                 vd_latestClip, ix_isListening, ix_isRecording, ix_audioPackets,
                 ix_memoListening, ix_pendingStart, ix_vads, ix_streamRef,
                 ix_mediaRecorderRef, ix_recState, ix_stopTask, ix_nRec,
                 ix_recListening, ix_audioChunksRef, ix_currentRecordingStartTime,
                 ix_silenceStartRef, ix_isLongPauseRef, ix_pauseTimers,
                 ix_pauseTimeoutRef, sv_clients, sv_sock, sv_isAlive, sv_buffer,
                 sv_timers, sv_timeoutVar, sv_requests, sv_out, sv_nextSweep,
                 sv_nAudio, sv_pinged, sv_swept, sd, av>>

\* faulty variant: a voiced sample during a session restarts its clock
HandleVoiceDetected_ResetsStart(outcome) ==
  /\ silenceTimers' = IF silenceTimeoutRef # Null
                        THEN silenceTimers \ {silenceTimeoutRef}
                        ELSE silenceTimers
  /\ silenceTimeoutRef' = Null
  /\ IF ~isRecordingRef /\ isListeningRef /\ streamRef
       THEN StartRecording(outcome)
       ELSE /\ recordingStartTimeRef' = IF isRecordingRef THEN DateNow
                                        ELSE recordingStartTimeRef
            /\ UNCHANGED <<mediaRecorderRef, recState, chunksRef, isRecordingRef,
                           recordingTimeoutRef, maxTimer, nRec, error, stopAttempts>>
  /\ VoicedHistory
  /\ UNCHANGED <<now, initRun, isInitialized, streamRef, cobraRef, audioContextRef,
                 isListeningRef, pendingStart, pendingStop, stopTask, delivered, jobs,
                 processingQueueRef, transcription, isProcessing, released, stopBy,
                 onstops, pg_initRun, pg_isInitialized, pg_error, pg_streamRef,
                 pg_cobraRef, pg_isListeningRef, pg_pendingStart, pg_pendingStop,
                 pg_isRecordingRef, pg_mediaRecorderRef, pg_recState, pg_stopTask,
                 pg_chunksRef, pg_recordingStartTimeRef, pg_silenceTimers,
                 pg_silenceTimeoutRef, pg_nRec, pg_transcription, pg_isProcessing,
                 pg_onstop, vd_initRun, vd_isInitialized, vd_error, vd_streamRef,
                 vd_cobraRef, vd_isListeningRef, vd_pendingStart, vd_pendingStop,
                 vd_isRecordingRef, vd_mediaRecorderRef, vd_recState, vd_stopTask,
                 vd_audioChunksRef, vd_recordingStartTimeRef, vd_silenceTimers,
                 vd_silenceTimeoutRef, vd_nRec, vd_startTime, vd_audioClips,
                 vd_latestClip, ix_isListening, ix_isRecording, ix_audioPackets,
                 ix_memoListening, ix_pendingStart, ix_vads, ix_streamRef,
                 ix_mediaRecorderRef, ix_recState, ix_stopTask, ix_nRec,
                 ix_recListening, ix_audioChunksRef, ix_currentRecordingStartTime,
                 ix_silenceStartRef, ix_isLongPauseRef, ix_pauseTimers,
                 ix_pauseTimeoutRef, sv_clients, sv_sock, sv_isAlive, sv_buffer,
                 sv_timers, sv_timeoutVar, sv_requests, sv_out, sv_nextSweep,
                 sv_nAudio, sv_pinged, sv_swept, sd, av>>

\* faulty variant: a session starts whether or not the component is listening
HandleVoiceDetected_IgnoresListening(outcome) ==
  /\ silenceTimers' = IF silenceTimeoutRef # Null
                        THEN silenceTimers \ {silenceTimeoutRef}
                        ELSE silenceTimers
  /\ silenceTimeoutRef' = Null
  /\ IF ~isRecordingRef /\ streamRef
       THEN StartRecording(outcome)
       ELSE UNCHANGED startVars
  /\ VoicedHistory
  /\ UNCHANGED <<now, initRun, isInitialized, streamRef, cobraRef, audioContextRef,
                 isListeningRef, pendingStart, pendingStop, stopTask, delivered, jobs,
                 processingQueueRef, transcription, isProcessing, released, stopBy,
                 onstops, pg_initRun, pg_isInitialized, pg_error, pg_streamRef,
                 pg_cobraRef, pg_isListeningRef, pg_pendingStart, pg_pendingStop,
                 pg_isRecordingRef, pg_mediaRecorderRef, pg_recState, pg_stopTask,
                 pg_chunksRef, pg_recordingStartTimeRef, pg_silenceTimers,
                 pg_silenceTimeoutRef, pg_nRec, pg_transcription, pg_isProcessing,
                 pg_onstop, vd_initRun, vd_isInitialized, vd_error, vd_streamRef,
                 vd_cobraRef, vd_isListeningRef, vd_pendingStart, vd_pendingStop,
                 vd_isRecordingRef, vd_mediaRecorderRef, vd_recState, vd_stopTask,
                 vd_audioChunksRef, vd_recordingStartTimeRef, vd_silenceTimers,
                 vd_silenceTimeoutRef, vd_nRec, vd_startTime, vd_audioClips,
                 vd_latestClip, ix_isListening, ix_isRecording, ix_audioPackets,
                 ix_memoListening, ix_pendingStart, ix_vads, ix_streamRef,
                 ix_mediaRecorderRef, ix_recState, ix_stopTask, ix_nRec,
                 ix_recListening, ix_audioChunksRef, ix_currentRecordingStartTime,
                 ix_silenceStartRef, ix_isLongPauseRef, ix_pauseTimers,
                 ix_pauseTimeoutRef, sv_clients, sv_sock, sv_isAlive, sv_buffer,
                 sv_timers, sv_timeoutVar, sv_requests, sv_out, sv_nextSweep,
                 sv_nAudio, sv_pinged, sv_swept, sd, av>>

\* handleVoiceDetected (part_001:261-274)
HandleVoiceDetected(outcome) ==
  /\ silenceTimers' = IF silenceTimeoutRef # Null
                        THEN silenceTimers \ {silenceTimeoutRef}
                        ELSE silenceTimers
  /\ silenceTimeoutRef' = Null
  /\ IF ~isRecordingRef /\ isListeningRef /\ streamRef
       THEN StartRecording(outcome)
       ELSE UNCHANGED startVars
  /\ VoicedHistory
  /\ UNCHANGED <<now, initRun, isInitialized, streamRef, cobraRef, audioContextRef,
                 isListeningRef, pendingStart, pendingStop, stopTask, delivered, jobs,
                 processingQueueRef, transcription, isProcessing, released, stopBy,
                 onstops, pg_initRun, pg_isInitialized, pg_error, pg_streamRef,
                 pg_cobraRef, pg_isListeningRef, pg_pendingStart, pg_pendingStop,
                 pg_isRecordingRef, pg_mediaRecorderRef, pg_recState, pg_stopTask,
                 pg_chunksRef, pg_recordingStartTimeRef, pg_silenceTimers,
                 pg_silenceTimeoutRef, pg_nRec, pg_transcription, pg_isProcessing,
                 pg_onstop, vd_initRun, vd_isInitialized, vd_error, vd_streamRef,
                 vd_cobraRef, vd_isListeningRef, vd_pendingStart, vd_pendingStop,
                 vd_isRecordingRef, vd_mediaRecorderRef, vd_recState, vd_stopTask,
                 vd_audioChunksRef, vd_recordingStartTimeRef, vd_silenceTimers,
                 vd_silenceTimeoutRef, vd_nRec, vd_startTime, vd_audioClips,
                 vd_latestClip, ix_isListening, ix_isRecording, ix_audioPackets,
                 ix_memoListening, ix_pendingStart, ix_vads, ix_streamRef,
                 ix_mediaRecorderRef, ix_recState, ix_stopTask, ix_nRec,
                 ix_recListening, ix_audioChunksRef, ix_currentRecordingStartTime,
                 ix_silenceStartRef, ix_isLongPauseRef, ix_pauseTimers,
                 ix_pauseTimeoutRef, sv_clients, sv_sock, sv_isAlive, sv_buffer,
                 sv_timers, sv_timeoutVar, sv_requests, sv_out, sv_nextSweep,
                 sv_nAudio, sv_pinged, sv_swept, sd, av>>

\* faulty variant: every sub-threshold sample of a session arms a timer
HandleSilenceDetected_Rearms ==
  /\ IF isRecordingRef
       THEN /\ silenceTimers' = silenceTimers \cup {now + SILENCE_DURATION_THRESHOLD}
            /\ silenceTimeoutRef' = now + SILENCE_DURATION_THRESHOLD
       ELSE UNCHANGED <<silenceTimers, silenceTimeoutRef>>
  /\ UNCHANGED <<now, initRun, isInitialized, error, streamRef, cobraRef,
                 audioContextRef, isListeningRef, pendingStart, pendingStop,
                 isRecordingRef, mediaRecorderRef, recState, stopTask, chunksRef,
                 delivered, recordingStartTimeRef, maxTimer, recordingTimeoutRef, nRec,
                 jobs, processingQueueRef, transcription, isProcessing, released,
                 voicedPastMin, debounced, stopBy, stopAttempts, onstops, pg_initRun,
                 pg_isInitialized, pg_error, pg_streamRef, pg_cobraRef,
                 pg_isListeningRef, pg_pendingStart, pg_pendingStop, pg_isRecordingRef,
                 pg_mediaRecorderRef, pg_recState, pg_stopTask, pg_chunksRef,
                 pg_recordingStartTimeRef, pg_silenceTimers, pg_silenceTimeoutRef,
                 pg_nRec, pg_transcription, pg_isProcessing, pg_onstop, vd_initRun,
                 vd_isInitialized, vd_error, vd_streamRef, vd_cobraRef,
                 vd_isListeningRef, vd_pendingStart, vd_pendingStop, vd_isRecordingRef,
                 vd_mediaRecorderRef, vd_recState, vd_stopTask, vd_audioChunksRef,
                 vd_recordingStartTimeRef, vd_silenceTimers, vd_silenceTimeoutRef,
                 vd_nRec, vd_startTime, vd_audioClips, vd_latestClip, ix_isListening,
                 ix_isRecording, ix_audioPackets, ix_memoListening, ix_pendingStart,
                 ix_vads, ix_streamRef, ix_mediaRecorderRef, ix_recState, ix_stopTask,
                 ix_nRec, ix_recListening, ix_audioChunksRef,
                 ix_currentRecordingStartTime, ix_silenceStartRef, ix_isLongPauseRef,
                 ix_pauseTimers, ix_pauseTimeoutRef, sv_clients, sv_sock, sv_isAlive,
                 sv_buffer, sv_timers, sv_timeoutVar, sv_requests, sv_out,
                 sv_nextSweep, sv_nAudio, sv_pinged, sv_swept, sd, av>>

\* faulty variant: the timer is armed whether or not a session is in progress
HandleSilenceDetected_ArmsWhenIdle ==
  /\ IF silenceTimeoutRef = Null
       THEN /\ silenceTimers' = silenceTimers \cup {now + SILENCE_DURATION_THRESHOLD}
            /\ silenceTimeoutRef' = now + SILENCE_DURATION_THRESHOLD
       ELSE UNCHANGED <<silenceTimers, silenceTimeoutRef>>
  /\ UNCHANGED <<now, initRun, isInitialized, error, streamRef, cobraRef,
                 audioContextRef, isListeningRef, pendingStart, pendingStop,
                 isRecordingRef, mediaRecorderRef, recState, stopTask, chunksRef,
                 delivered, recordingStartTimeRef, maxTimer, recordingTimeoutRef, nRec,
                 jobs, processingQueueRef, transcription, isProcessing, released,
                 voicedPastMin, debounced, stopBy, stopAttempts, onstops, pg_initRun,
                 pg_isInitialized, pg_error, pg_streamRef, pg_cobraRef,
                 pg_isListeningRef, pg_pendingStart, pg_pendingStop, pg_isRecordingRef,
                 pg_mediaRecorderRef, pg_recState, pg_stopTask, pg_chunksRef,
                 pg_recordingStartTimeRef, pg_silenceTimers, pg_silenceTimeoutRef,
                 pg_nRec, pg_transcription, pg_isProcessing, pg_onstop, vd_initRun,
                 vd_isInitialized, vd_error, vd_streamRef, vd_cobraRef,
                 vd_isListeningRef, vd_pendingStart, vd_pendingStop, vd_isRecordingRef,
                 vd_mediaRecorderRef, vd_recState, vd_stopTask, vd_audioChunksRef,
                 vd_recordingStartTimeRef, vd_silenceTimers, vd_silenceTimeoutRef,
                 vd_nRec, vd_startTime, vd_audioClips, vd_latestClip, ix_isListening,
                 ix_isRecording, ix_audioPackets, ix_memoListening, ix_pendingStart,
                 ix_vads, ix_streamRef, ix_mediaRecorderRef, ix_recState, ix_stopTask,
                 ix_nRec, ix_recListening, ix_audioChunksRef,
                 ix_currentRecordingStartTime, ix_silenceStartRef, ix_isLongPauseRef,
                 ix_pauseTimers, ix_pauseTimeoutRef, sv_clients, sv_sock, sv_isAlive,
                 sv_buffer, sv_timers, sv_timeoutVar, sv_requests, sv_out,
                 sv_nextSweep, sv_nAudio, sv_pinged, sv_swept, sd, av>>

\* handleSilenceDetected (part_001:276-283)
HandleSilenceDetected ==
  /\ IF silenceTimeoutRef = Null /\ isRecordingRef
       THEN /\ silenceTimers' = silenceTimers \cup {now + SILENCE_DURATION_THRESHOLD}
            /\ silenceTimeoutRef' = now + SILENCE_DURATION_THRESHOLD
       ELSE UNCHANGED <<silenceTimers, silenceTimeoutRef>>
  /\ UNCHANGED <<now, initRun, isInitialized, error, streamRef, cobraRef,
                 audioContextRef, isListeningRef, pendingStart, pendingStop,
                 isRecordingRef, mediaRecorderRef, recState, stopTask, chunksRef,
                 delivered, recordingStartTimeRef, maxTimer, recordingTimeoutRef, nRec,
                 jobs, processingQueueRef, transcription, isProcessing, released,
                 voicedPastMin, debounced, stopBy, stopAttempts, onstops, pg_initRun,
                 pg_isInitialized, pg_error, pg_streamRef, pg_cobraRef,
                 pg_isListeningRef, pg_pendingStart, pg_pendingStop, pg_isRecordingRef,
                 pg_mediaRecorderRef, pg_recState, pg_stopTask, pg_chunksRef,
                 pg_recordingStartTimeRef, pg_silenceTimers, pg_silenceTimeoutRef,
                 pg_nRec, pg_transcription, pg_isProcessing, pg_onstop, vd_initRun,
                 vd_isInitialized, vd_error, vd_streamRef, vd_cobraRef,
                 vd_isListeningRef, vd_pendingStart, vd_pendingStop, vd_isRecordingRef,
                 vd_mediaRecorderRef, vd_recState, vd_stopTask, vd_audioChunksRef,
                 vd_recordingStartTimeRef, vd_silenceTimers, vd_silenceTimeoutRef,
                 vd_nRec, vd_startTime, vd_audioClips, vd_latestClip, ix_isListening,
                 ix_isRecording, ix_audioPackets, ix_memoListening, ix_pendingStart,
                 ix_vads, ix_streamRef, ix_mediaRecorderRef, ix_recState, ix_stopTask,
                 ix_nRec, ix_recListening, ix_audioChunksRef,
                 ix_currentRecordingStartTime, ix_silenceStartRef, ix_isLongPauseRef,
                 ix_pauseTimers, ix_pauseTimeoutRef, sv_clients, sv_sock, sv_isAlive,
                 sv_buffer, sv_timers, sv_timeoutVar, sv_requests, sv_out,
                 sv_nextSweep, sv_nAudio, sv_pinged, sv_swept, sd, av>>

\* the CobraWorker callback (part_001:240-246)
HandleVoiceProbability(probability, outcome) ==
  /\ cobraRef
  /\ IF probability >= VOICE_PROBABILITY_THRESHOLD
       THEN HandleVoiceDetected(outcome)
       ELSE HandleSilenceDetected

\* faulty variant: the silence timer's callback resets the handle and stops nothing
SilenceTimeout_StopsNothing(d) ==
  /\ d \in silenceTimers
  /\ now >= d
  /\ silenceTimers' = silenceTimers \ {d}
  /\ silenceTimeoutRef' = Null
  /\ UNCHANGED <<now, initRun, isInitialized, error, streamRef, cobraRef,
                 audioContextRef, isListeningRef, pendingStart, pendingStop,
                 isRecordingRef, mediaRecorderRef, recState, stopTask, chunksRef,
                 delivered, recordingStartTimeRef, maxTimer, recordingTimeoutRef, nRec,
                 jobs, processingQueueRef, transcription, isProcessing, released,
                 voicedPastMin, debounced, stopBy, stopAttempts, onstops, pg_initRun,
                 pg_isInitialized, pg_error, pg_streamRef, pg_cobraRef,
                 pg_isListeningRef, pg_pendingStart, pg_pendingStop, pg_isRecordingRef,
                 pg_mediaRecorderRef, pg_recState, pg_stopTask, pg_chunksRef,
                 pg_recordingStartTimeRef, pg_silenceTimers, pg_silenceTimeoutRef,
                 pg_nRec, pg_transcription, pg_isProcessing, pg_onstop, vd_initRun,
                 vd_isInitialized, vd_error, vd_streamRef, vd_cobraRef,
                 vd_isListeningRef, vd_pendingStart, vd_pendingStop, vd_isRecordingRef,
                 vd_mediaRecorderRef, vd_recState, vd_stopTask, vd_audioChunksRef,
                 vd_recordingStartTimeRef, vd_silenceTimers, vd_silenceTimeoutRef,
                 vd_nRec, vd_startTime, vd_audioClips, vd_latestClip, ix_isListening,
                 ix_isRecording, ix_audioPackets, ix_memoListening, ix_pendingStart,
                 ix_vads, ix_streamRef, ix_mediaRecorderRef, ix_recState, ix_stopTask,
                 ix_nRec, ix_recListening, ix_audioChunksRef,
                 ix_currentRecordingStartTime, ix_silenceStartRef, ix_isLongPauseRef,
                 ix_pauseTimers, ix_pauseTimeoutRef, sv_clients, sv_sock, sv_isAlive,
                 sv_buffer, sv_timers, sv_timeoutVar, sv_requests, sv_out,
                 sv_nextSweep, sv_nAudio, sv_pinged, sv_swept, sd, av>>

\* the silence timer's callback (part_001:278-281)
SilenceTimeout(d) ==
  /\ d \in silenceTimers
  /\ now >= d
  /\ silenceTimers' = silenceTimers \ {d}
  /\ StopRecordingWith(maxTimer, "silence")
  /\ silenceTimeoutRef' = Null
  /\ UNCHANGED <<now, initRun, isInitialized, error, streamRef, cobraRef,
                 audioContextRef, isListeningRef, pendingStart, pendingStop,
                 isRecordingRef, mediaRecorderRef, chunksRef, delivered,
                 recordingStartTimeRef, nRec, transcription, isProcessing, released,
                 voicedPastMin, debounced, onstops, pg_initRun, pg_isInitialized,
                 pg_error, pg_streamRef, pg_cobraRef, pg_isListeningRef,
                 pg_pendingStart, pg_pendingStop, pg_isRecordingRef,
                 pg_mediaRecorderRef, pg_recState, pg_stopTask, pg_chunksRef,
                 pg_recordingStartTimeRef, pg_silenceTimers, pg_silenceTimeoutRef,
                 pg_nRec, pg_transcription, pg_isProcessing, pg_onstop, vd_initRun,
                 vd_isInitialized, vd_error, vd_streamRef, vd_cobraRef,
                 vd_isListeningRef, vd_pendingStart, vd_pendingStop, vd_isRecordingRef,
                 vd_mediaRecorderRef, vd_recState, vd_stopTask, vd_audioChunksRef,
                 vd_recordingStartTimeRef, vd_silenceTimers, vd_silenceTimeoutRef,
                 vd_nRec, vd_startTime, vd_audioClips, vd_latestClip, ix_isListening,
                 ix_isRecording, ix_audioPackets, ix_memoListening, ix_pendingStart,
                 ix_vads, ix_streamRef, ix_mediaRecorderRef, ix_recState, ix_stopTask,
                 ix_nRec, ix_recListening, ix_audioChunksRef,
                 ix_currentRecordingStartTime, ix_silenceStartRef, ix_isLongPauseRef,
                 ix_pauseTimers, ix_pauseTimeoutRef, sv_clients, sv_sock, sv_isAlive,
                 sv_buffer, sv_timers, sv_timeoutVar, sv_requests, sv_out,
                 sv_nextSweep, sv_nAudio, sv_pinged, sv_swept, sd, av>>

\* the max-duration timer's callback (part_001:330-334); r is the recorder
\* its closure holds
RecordingTimeout(r) ==
  /\ maxTimer[r] # Null
  /\ now >= maxTimer[r]
  /\ IF recState[r] = "recording"
       THEN StopRecordingWith([maxTimer EXCEPT ![r] = Null], "max")
       ELSE /\ maxTimer' = [maxTimer EXCEPT ![r] = Null]
            /\ UNCHANGED <<recState, stopTask, stopBy, stopAttempts, recordingTimeoutRef,
                           jobs, processingQueueRef>>
  /\ UNCHANGED <<now, initRun, isInitialized, error, streamRef, cobraRef,
                 audioContextRef, isListeningRef, pendingStart, pendingStop,
                 isRecordingRef, mediaRecorderRef, chunksRef, delivered,
                 recordingStartTimeRef, silenceTimers, silenceTimeoutRef, nRec,
                 transcription, isProcessing, released, voicedPastMin, debounced,
                 onstops, pg_initRun, pg_isInitialized, pg_error, pg_streamRef,
                 pg_cobraRef, pg_isListeningRef, pg_pendingStart, pg_pendingStop,
                 pg_isRecordingRef, pg_mediaRecorderRef, pg_recState, pg_stopTask,
                 pg_chunksRef, pg_recordingStartTimeRef, pg_silenceTimers,
                 pg_silenceTimeoutRef, pg_nRec, pg_transcription, pg_isProcessing,
                 pg_onstop, vd_initRun, vd_isInitialized, vd_error, vd_streamRef,
                 vd_cobraRef, vd_isListeningRef, vd_pendingStart, vd_pendingStop,
                 vd_isRecordingRef, vd_mediaRecorderRef, vd_recState, vd_stopTask,
                 vd_audioChunksRef, vd_recordingStartTimeRef, vd_silenceTimers,
                 vd_silenceTimeoutRef, vd_nRec, vd_startTime, vd_audioClips,
                 vd_latestClip, ix_isListening, ix_isRecording, ix_audioPackets,
                 ix_memoListening, ix_pendingStart, ix_vads, ix_streamRef,
                 ix_mediaRecorderRef, ix_recState, ix_stopTask, ix_nRec,
                 ix_recListening, ix_audioChunksRef, ix_currentRecordingStartTime,
                 ix_silenceStartRef, ix_isLongPauseRef, ix_pauseTimers,
                 ix_pauseTimeoutRef, sv_clients, sv_sock, sv_isAlive, sv_buffer,
                 sv_timers, sv_timeoutVar, sv_requests, sv_out, sv_nextSweep,
                 sv_nAudio, sv_pinged, sv_swept, sd, av>>

\* the next non-empty chunk recorder r delivers (event.data at part_001:303)
NextChunk(r) == <<r, delivered[r] + 1>>

\* mediaRecorder.ondataavailable for a timeslice chunk (part_001:303-307)
OnDataAvailable(r, size) ==
  /\ recState[r] = "recording"
  /\ Len(chunksRef) < MaxChunks
  /\ chunksRef' = IF size > 0 THEN Append(chunksRef, NextChunk(r)) ELSE chunksRef
  /\ delivered' = IF size > 0 THEN [delivered EXCEPT ![r] = @ + 1] ELSE delivered
  /\ UNCHANGED <<now, initRun, isInitialized, error, streamRef, cobraRef,
                 audioContextRef, isListeningRef, pendingStart, pendingStop,
                 isRecordingRef, mediaRecorderRef, recState, stopTask,
                 recordingStartTimeRef, silenceTimers, silenceTimeoutRef, maxTimer,
                 recordingTimeoutRef, nRec, jobs, processingQueueRef, transcription,
                 isProcessing, released, voicedPastMin, debounced, stopBy,
                 stopAttempts, onstops, pg_initRun, pg_isInitialized, pg_error,
                 pg_streamRef, pg_cobraRef, pg_isListeningRef, pg_pendingStart,
                 pg_pendingStop, pg_isRecordingRef, pg_mediaRecorderRef, pg_recState,
                 pg_stopTask, pg_chunksRef, pg_recordingStartTimeRef, pg_silenceTimers,
                 pg_silenceTimeoutRef, pg_nRec, pg_transcription, pg_isProcessing,
                 pg_onstop, vd_initRun, vd_isInitialized, vd_error, vd_streamRef,
                 vd_cobraRef, vd_isListeningRef, vd_pendingStart, vd_pendingStop,
                 vd_isRecordingRef, vd_mediaRecorderRef, vd_recState, vd_stopTask,
                 vd_audioChunksRef, vd_recordingStartTimeRef, vd_silenceTimers,
                 vd_silenceTimeoutRef, vd_nRec, vd_startTime, vd_audioClips,
                 vd_latestClip, ix_isListening, ix_isRecording, ix_audioPackets,
                 ix_memoListening, ix_pendingStart, ix_vads, ix_streamRef,
                 ix_mediaRecorderRef, ix_recState, ix_stopTask, ix_nRec,
                 ix_recListening, ix_audioChunksRef, ix_currentRecordingStartTime,
                 ix_silenceStartRef, ix_isLongPauseRef, ix_pauseTimers,
                 ix_pauseTimeoutRef, sv_clients, sv_sock, sv_isAlive, sv_buffer,
                 sv_timers, sv_timeoutVar, sv_requests, sv_out, sv_nextSweep,
                 sv_nAudio, sv_pinged, sv_swept, sd, av>>

\* faulty variant: onstop hands the clip over whatever the session's duration
RecorderStopTask_IgnoresDuration(r, size) ==
  LET chunks == IF size > 0 THEN Append(chunksRef, NextChunk(r)) ELSE chunksRef
  IN /\ stopTask[r] > 0
     /\ stopTask' = [stopTask EXCEPT ![r] = @ - 1]
     /\ IF Len(chunks) > 0
          THEN ProcessAndSendAudio(chunks, r)
          ELSE UNCHANGED <<jobs, processingQueueRef>>
     /\ chunksRef' = <<>>
     /\ isRecordingRef' = FALSE
     /\ recordingStartTimeRef' = Null
     /\ onstops' = [onstops EXCEPT ![r] = @ + 1]
     /\ delivered' = [delivered EXCEPT ![r] = 0]
     /\ UNCHANGED <<now, initRun, isInitialized, error, streamRef, cobraRef,
                    audioContextRef, isListeningRef, pendingStart, pendingStop,
                    mediaRecorderRef, recState, silenceTimers, silenceTimeoutRef,
                    maxTimer, recordingTimeoutRef, nRec, transcription, isProcessing,
                    released, voicedPastMin, debounced, stopBy, stopAttempts,
                    pg_initRun, pg_isInitialized, pg_error, pg_streamRef, pg_cobraRef,
                    pg_isListeningRef, pg_pendingStart, pg_pendingStop,
                    pg_isRecordingRef, pg_mediaRecorderRef, pg_recState, pg_stopTask,
                    pg_chunksRef, pg_recordingStartTimeRef, pg_silenceTimers,
                    pg_silenceTimeoutRef, pg_nRec, pg_transcription, pg_isProcessing,
                    pg_onstop, vd_initRun, vd_isInitialized, vd_error, vd_streamRef,
                    vd_cobraRef, vd_isListeningRef, vd_pendingStart, vd_pendingStop,
                    vd_isRecordingRef, vd_mediaRecorderRef, vd_recState, vd_stopTask,
                    vd_audioChunksRef, vd_recordingStartTimeRef, vd_silenceTimers,
                    vd_silenceTimeoutRef, vd_nRec, vd_startTime, vd_audioClips,
                    vd_latestClip, ix_isListening, ix_isRecording, ix_audioPackets,
                    ix_memoListening, ix_pendingStart, ix_vads, ix_streamRef,
                    ix_mediaRecorderRef, ix_recState, ix_stopTask, ix_nRec,
                    ix_recListening, ix_audioChunksRef, ix_currentRecordingStartTime,
                    ix_silenceStartRef, ix_isLongPauseRef, ix_pauseTimers,
                    ix_pauseTimeoutRef, sv_clients, sv_sock, sv_isAlive, sv_buffer,
                    sv_timers, sv_timeoutVar, sv_requests, sv_out, sv_nextSweep,
                    sv_nAudio, sv_pinged, sv_swept, sd, av>>

\* faulty variant: onstop does not reset isRecordingRef
RecorderStopTask_KeepsFlag(r, size) ==
  LET chunks == IF size > 0 THEN Append(chunksRef, NextChunk(r)) ELSE chunksRef
      duration == DateNow - (IF recordingStartTimeRef # Null
                               THEN recordingStartTimeRef ELSE 0)
  IN /\ stopTask[r] > 0
     /\ stopTask' = [stopTask EXCEPT ![r] = @ - 1]
     /\ IF duration >= MIN_RECORDING_DURATION /\ Len(chunks) > 0
          THEN ProcessAndSendAudio(chunks, r)
          ELSE UNCHANGED <<jobs, processingQueueRef>>
     /\ chunksRef' = <<>>
     /\ isRecordingRef' = isRecordingRef
     /\ recordingStartTimeRef' = Null
     /\ onstops' = [onstops EXCEPT ![r] = @ + 1]
     /\ delivered' = [delivered EXCEPT ![r] = 0]
     /\ UNCHANGED <<now, initRun, isInitialized, error, streamRef, cobraRef,
                    audioContextRef, isListeningRef, pendingStart, pendingStop,
                    mediaRecorderRef, recState, silenceTimers, silenceTimeoutRef,
                    maxTimer, recordingTimeoutRef, nRec, transcription, isProcessing,
                    released, voicedPastMin, debounced, stopBy, stopAttempts,
                    pg_initRun, pg_isInitialized, pg_error, pg_streamRef, pg_cobraRef,
                    pg_isListeningRef, pg_pendingStart, pg_pendingStop,
                    pg_isRecordingRef, pg_mediaRecorderRef, pg_recState, pg_stopTask,
                    pg_chunksRef, pg_recordingStartTimeRef, pg_silenceTimers,
                    pg_silenceTimeoutRef, pg_nRec, pg_transcription, pg_isProcessing,
                    pg_onstop, vd_initRun, vd_isInitialized, vd_error, vd_streamRef,
                    vd_cobraRef, vd_isListeningRef, vd_pendingStart, vd_pendingStop,
                    vd_isRecordingRef, vd_mediaRecorderRef, vd_recState, vd_stopTask,
                    vd_audioChunksRef, vd_recordingStartTimeRef, vd_silenceTimers,
                    vd_silenceTimeoutRef, vd_nRec, vd_startTime, vd_audioClips,
                    vd_latestClip, ix_isListening, ix_isRecording, ix_audioPackets,
                    ix_memoListening, ix_pendingStart, ix_vads, ix_streamRef,
                    ix_mediaRecorderRef, ix_recState, ix_stopTask, ix_nRec,
                    ix_recListening, ix_audioChunksRef, ix_currentRecordingStartTime,
                    ix_silenceStartRef, ix_isLongPauseRef, ix_pauseTimers,
                    ix_pauseTimeoutRef, sv_clients, sv_sock, sv_isAlive, sv_buffer,
                    sv_timers, sv_timeoutVar, sv_requests, sv_out, sv_nextSweep,
                    sv_nAudio, sv_pinged, sv_swept, sd, av>>

\* faulty variant: the last chunk is put in front of the chunks gathered so far
RecorderStopTask_LastChunkFirst(r, size) ==
  LET chunks == IF size > 0 THEN <<NextChunk(r)>> \o chunksRef ELSE chunksRef
      duration == DateNow - (IF recordingStartTimeRef # Null
                               THEN recordingStartTimeRef ELSE 0)
  IN /\ stopTask[r] > 0
     /\ stopTask' = [stopTask EXCEPT ![r] = @ - 1]
     /\ IF duration >= MIN_RECORDING_DURATION /\ Len(chunks) > 0
          THEN ProcessAndSendAudio(chunks, r)
          ELSE UNCHANGED <<jobs, processingQueueRef>>
     /\ chunksRef' = <<>>
     /\ isRecordingRef' = FALSE
     /\ recordingStartTimeRef' = Null
     /\ onstops' = [onstops EXCEPT ![r] = @ + 1]
     /\ delivered' = [delivered EXCEPT ![r] = 0]
     /\ UNCHANGED <<now, initRun, isInitialized, error, streamRef, cobraRef,
                    audioContextRef, isListeningRef, pendingStart, pendingStop,
                    mediaRecorderRef, recState, silenceTimers, silenceTimeoutRef,
                    maxTimer, recordingTimeoutRef, nRec, transcription, isProcessing,
                    released, voicedPastMin, debounced, stopBy, stopAttempts,
                    pg_initRun, pg_isInitialized, pg_error, pg_streamRef, pg_cobraRef,
                    pg_isListeningRef, pg_pendingStart, pg_pendingStop,
                    pg_isRecordingRef, pg_mediaRecorderRef, pg_recState, pg_stopTask,
                    pg_chunksRef, pg_recordingStartTimeRef, pg_silenceTimers,
                    pg_silenceTimeoutRef, pg_nRec, pg_transcription, pg_isProcessing,
                    pg_onstop, vd_initRun, vd_isInitialized, vd_error, vd_streamRef,
                    vd_cobraRef, vd_isListeningRef, vd_pendingStart, vd_pendingStop,
                    vd_isRecordingRef, vd_mediaRecorderRef, vd_recState, vd_stopTask,
                    vd_audioChunksRef, vd_recordingStartTimeRef, vd_silenceTimers,
                    vd_silenceTimeoutRef, vd_nRec, vd_startTime, vd_audioClips,
                    vd_latestClip, ix_isListening, ix_isRecording, ix_audioPackets,
                    ix_memoListening, ix_pendingStart, ix_vads, ix_streamRef,
                    ix_mediaRecorderRef, ix_recState, ix_stopTask, ix_nRec,
                    ix_recListening, ix_audioChunksRef, ix_currentRecordingStartTime,
                    ix_silenceStartRef, ix_isLongPauseRef, ix_pauseTimers,
                    ix_pauseTimeoutRef, sv_clients, sv_sock, sv_isAlive, sv_buffer,
                    sv_timers, sv_timeoutVar, sv_requests, sv_out, sv_nextSweep,
                    sv_nAudio, sv_pinged, sv_swept, sd, av>>

\* The task MediaRecorder.stop() queued for recorder r: dataavailable with the
\* rest of the data (handler at part_001:303-307), then stop
\* (mediaRecorder.onstop, part_001:309-324).
RecorderStopTask(r, size) ==
  LET chunks == IF size > 0 THEN Append(chunksRef, NextChunk(r)) ELSE chunksRef
      duration == DateNow - (IF recordingStartTimeRef # Null
                               THEN recordingStartTimeRef ELSE 0)
  IN /\ stopTask[r] > 0
     /\ stopTask' = [stopTask EXCEPT ![r] = @ - 1]
     /\ IF duration >= MIN_RECORDING_DURATION /\ Len(chunks) > 0
          THEN ProcessAndSendAudio(chunks, r)
          ELSE UNCHANGED <<jobs, processingQueueRef>>
     /\ chunksRef' = <<>>
     /\ isRecordingRef' = FALSE
     /\ recordingStartTimeRef' = Null
     /\ onstops' = [onstops EXCEPT ![r] = @ + 1]
     /\ delivered' = [delivered EXCEPT ![r] = 0]
     /\ UNCHANGED <<now, initRun, isInitialized, error, streamRef, cobraRef,
                    audioContextRef, isListeningRef, pendingStart, pendingStop,
                    mediaRecorderRef, recState, silenceTimers, silenceTimeoutRef,
                    maxTimer, recordingTimeoutRef, nRec, transcription, isProcessing,
                    released, voicedPastMin, debounced, stopBy, stopAttempts,
                    pg_initRun, pg_isInitialized, pg_error, pg_streamRef, pg_cobraRef,
                    pg_isListeningRef, pg_pendingStart, pg_pendingStop,
                    pg_isRecordingRef, pg_mediaRecorderRef, pg_recState, pg_stopTask,
                    pg_chunksRef, pg_recordingStartTimeRef, pg_silenceTimers,
                    pg_silenceTimeoutRef, pg_nRec, pg_transcription, pg_isProcessing,
                    pg_onstop, vd_initRun, vd_isInitialized, vd_error, vd_streamRef,
                    vd_cobraRef, vd_isListeningRef, vd_pendingStart, vd_pendingStop,
                    vd_isRecordingRef, vd_mediaRecorderRef, vd_recState, vd_stopTask,
                    vd_audioChunksRef, vd_recordingStartTimeRef, vd_silenceTimers,
                    vd_silenceTimeoutRef, vd_nRec, vd_startTime, vd_audioClips,
                    vd_latestClip, ix_isListening, ix_isRecording, ix_audioPackets,
                    ix_memoListening, ix_pendingStart, ix_vads, ix_streamRef,
                    ix_mediaRecorderRef, ix_recState, ix_stopTask, ix_nRec,
                    ix_recListening, ix_audioChunksRef, ix_currentRecordingStartTime,
                    ix_silenceStartRef, ix_isLongPauseRef, ix_pauseTimers,
                    ix_pauseTimeoutRef, sv_clients, sv_sock, sv_isAlive, sv_buffer,
                    sv_timers, sv_timeoutVar, sv_requests, sv_out, sv_nextSweep,
                    sv_nAudio, sv_pinged, sv_swept, sd, av>>

\* the recorder's stop task runs its onstop handler
SessionFinalized == \E r \in Recs, size \in {0, 1} : RecorderStopTask(r, size)

\* ----------------------------------------------------------------- listening
\* startListening up to its await (part_001:350-353); with the guard false it
\* returns and nothing changes
StartListeningCall ==
  /\ isInitialized /\ cobraRef
  /\ pendingStart < MaxPending
  /\ pendingStart' = pendingStart + 1
  /\ UNCHANGED <<now, initRun, isInitialized, error, streamRef, cobraRef,
                 audioContextRef, isListeningRef, pendingStop, isRecordingRef,
                 mediaRecorderRef, recState, stopTask, chunksRef, delivered,
                 recordingStartTimeRef, silenceTimers, silenceTimeoutRef, maxTimer,
                 recordingTimeoutRef, nRec, jobs, processingQueueRef, transcription,
                 isProcessing, released, voicedPastMin, debounced, stopBy,
                 stopAttempts, onstops, pg_initRun, pg_isInitialized, pg_error,
                 pg_streamRef, pg_cobraRef, pg_isListeningRef, pg_pendingStart,
                 pg_pendingStop, pg_isRecordingRef, pg_mediaRecorderRef, pg_recState,
                 pg_stopTask, pg_chunksRef, pg_recordingStartTimeRef, pg_silenceTimers,
                 pg_silenceTimeoutRef, pg_nRec, pg_transcription, pg_isProcessing,
                 pg_onstop, vd_initRun, vd_isInitialized, vd_error, vd_streamRef,
                 vd_cobraRef, vd_isListeningRef, vd_pendingStart, vd_pendingStop,
                 vd_isRecordingRef, vd_mediaRecorderRef, vd_recState, vd_stopTask,
                 vd_audioChunksRef, vd_recordingStartTimeRef, vd_silenceTimers,
                 vd_silenceTimeoutRef, vd_nRec, vd_startTime, vd_audioClips,
                 vd_latestClip, ix_isListening, ix_isRecording, ix_audioPackets,
                 ix_memoListening, ix_pendingStart, ix_vads, ix_streamRef,
                 ix_mediaRecorderRef, ix_recState, ix_stopTask, ix_nRec,
                 ix_recListening, ix_audioChunksRef, ix_currentRecordingStartTime,
                 ix_silenceStartRef, ix_isLongPauseRef, ix_pauseTimers,
                 ix_pauseTimeoutRef, sv_clients, sv_sock, sv_isAlive, sv_buffer,
                 sv_timers, sv_timeoutVar, sv_requests, sv_out, sv_nextSweep,
                 sv_nAudio, sv_pinged, sv_swept, sd, av>>

\* startListening after WebVoiceProcessor.subscribe settled (part_001:354-359)
StartListeningResume(subscribed) ==
  /\ pendingStart > 0
  /\ pendingStart' = pendingStart - 1
  /\ IF subscribed
       THEN isListeningRef' = TRUE /\ error' = NoError
       ELSE error' = "Failed to start listening" /\ UNCHANGED isListeningRef
  /\ UNCHANGED <<now, initRun, isInitialized, streamRef, cobraRef, audioContextRef,
                 pendingStop, isRecordingRef, mediaRecorderRef, recState, stopTask,
                 chunksRef, delivered, recordingStartTimeRef, silenceTimers,
                 silenceTimeoutRef, maxTimer, recordingTimeoutRef, nRec, jobs,
                 processingQueueRef, transcription, isProcessing, released,
                 voicedPastMin, debounced, stopBy, stopAttempts, onstops, pg_initRun,
                 pg_isInitialized, pg_error, pg_streamRef, pg_cobraRef,
                 pg_isListeningRef, pg_pendingStart, pg_pendingStop, pg_isRecordingRef,
                 pg_mediaRecorderRef, pg_recState, pg_stopTask, pg_chunksRef,
                 pg_recordingStartTimeRef, pg_silenceTimers, pg_silenceTimeoutRef,
                 pg_nRec, pg_transcription, pg_isProcessing, pg_onstop, vd_initRun,
                 vd_isInitialized, vd_error, vd_streamRef, vd_cobraRef,
                 vd_isListeningRef, vd_pendingStart, vd_pendingStop, vd_isRecordingRef,
                 vd_mediaRecorderRef, vd_recState, vd_stopTask, vd_audioChunksRef,
                 vd_recordingStartTimeRef, vd_silenceTimers, vd_silenceTimeoutRef,
                 vd_nRec, vd_startTime, vd_audioClips, vd_latestClip, ix_isListening,
                 ix_isRecording, ix_audioPackets, ix_memoListening, ix_pendingStart,
                 ix_vads, ix_streamRef, ix_mediaRecorderRef, ix_recState, ix_stopTask,
                 ix_nRec, ix_recListening, ix_audioChunksRef,
                 ix_currentRecordingStartTime, ix_silenceStartRef, ix_isLongPauseRef,
                 ix_pauseTimers, ix_pauseTimeoutRef, sv_clients, sv_sock, sv_isAlive,
                 sv_buffer, sv_timers, sv_timeoutVar, sv_requests, sv_out,
                 sv_nextSweep, sv_nAudio, sv_pinged, sv_swept, sd, av>>

\* stopListening up to its await (part_001:362-365); with the guard false it
\* returns and nothing changes
StopListeningCall ==
  /\ isListeningRef /\ cobraRef
  /\ pendingStop < MaxPending
  /\ pendingStop' = pendingStop + 1
  /\ UNCHANGED <<now, initRun, isInitialized, error, streamRef, cobraRef,
                 audioContextRef, isListeningRef, pendingStart, isRecordingRef,
                 mediaRecorderRef, recState, stopTask, chunksRef, delivered,
                 recordingStartTimeRef, silenceTimers, silenceTimeoutRef, maxTimer,
                 recordingTimeoutRef, nRec, jobs, processingQueueRef, transcription,
                 isProcessing, released, voicedPastMin, debounced, stopBy,
                 stopAttempts, onstops, pg_initRun, pg_isInitialized, pg_error,
                 pg_streamRef, pg_cobraRef, pg_isListeningRef, pg_pendingStart,
                 pg_pendingStop, pg_isRecordingRef, pg_mediaRecorderRef, pg_recState,
                 pg_stopTask, pg_chunksRef, pg_recordingStartTimeRef, pg_silenceTimers,
                 pg_silenceTimeoutRef, pg_nRec, pg_transcription, pg_isProcessing,
                 pg_onstop, vd_initRun, vd_isInitialized, vd_error, vd_streamRef,
                 vd_cobraRef, vd_isListeningRef, vd_pendingStart, vd_pendingStop,
                 vd_isRecordingRef, vd_mediaRecorderRef, vd_recState, vd_stopTask,
                 vd_audioChunksRef, vd_recordingStartTimeRef, vd_silenceTimers,
                 vd_silenceTimeoutRef, vd_nRec, vd_startTime, vd_audioClips,
                 vd_latestClip, ix_isListening, ix_isRecording, ix_audioPackets,
                 ix_memoListening, ix_pendingStart, ix_vads, ix_streamRef,
                 ix_mediaRecorderRef, ix_recState, ix_stopTask, ix_nRec,
                 ix_recListening, ix_audioChunksRef, ix_currentRecordingStartTime,
                 ix_silenceStartRef, ix_isLongPauseRef, ix_pauseTimers,
                 ix_pauseTimeoutRef, sv_clients, sv_sock, sv_isAlive, sv_buffer,
                 sv_timers, sv_timeoutVar, sv_requests, sv_out, sv_nextSweep,
                 sv_nAudio, sv_pinged, sv_swept, sd, av>>

\* faulty variant: stopListening leaves the recorder of the active session alone
StopListeningResume_LeavesRecorder(unsubscribed) ==
  /\ pendingStop > 0
  /\ pendingStop' = pendingStop - 1
  /\ UNCHANGED stopVars
  /\ IF unsubscribed
       THEN isListeningRef' = FALSE /\ error' = NoError
       ELSE error' = "Failed to stop listening" /\ UNCHANGED isListeningRef
  /\ UNCHANGED <<now, initRun, isInitialized, streamRef, cobraRef, audioContextRef,
                 pendingStart, isRecordingRef, mediaRecorderRef, chunksRef, delivered,
                 recordingStartTimeRef, silenceTimers, silenceTimeoutRef, nRec,
                 transcription, isProcessing, released, voicedPastMin, debounced,
                 onstops, pg_initRun, pg_isInitialized, pg_error, pg_streamRef,
                 pg_cobraRef, pg_isListeningRef, pg_pendingStart, pg_pendingStop,
                 pg_isRecordingRef, pg_mediaRecorderRef, pg_recState, pg_stopTask,
                 pg_chunksRef, pg_recordingStartTimeRef, pg_silenceTimers,
                 pg_silenceTimeoutRef, pg_nRec, pg_transcription, pg_isProcessing,
                 pg_onstop, vd_initRun, vd_isInitialized, vd_error, vd_streamRef,
                 vd_cobraRef, vd_isListeningRef, vd_pendingStart, vd_pendingStop,
                 vd_isRecordingRef, vd_mediaRecorderRef, vd_recState, vd_stopTask,
                 vd_audioChunksRef, vd_recordingStartTimeRef, vd_silenceTimers,
                 vd_silenceTimeoutRef, vd_nRec, vd_startTime, vd_audioClips,
                 vd_latestClip, ix_isListening, ix_isRecording, ix_audioPackets,
                 ix_memoListening, ix_pendingStart, ix_vads, ix_streamRef,
                 ix_mediaRecorderRef, ix_recState, ix_stopTask, ix_nRec,
                 ix_recListening, ix_audioChunksRef, ix_currentRecordingStartTime,
                 ix_silenceStartRef, ix_isLongPauseRef, ix_pauseTimers,
                 ix_pauseTimeoutRef, sv_clients, sv_sock, sv_isAlive, sv_buffer,
                 sv_timers, sv_timeoutVar, sv_requests, sv_out, sv_nextSweep,
                 sv_nAudio, sv_pinged, sv_swept, sd, av>>

\* stopListening after WebVoiceProcessor.unsubscribe settled (part_001:366-374)
StopListeningResume(unsubscribed) ==
  /\ pendingStop > 0
  /\ pendingStop' = pendingStop - 1
  /\ IF unsubscribed
       THEN /\ IF isRecordingRef
                 THEN StopRecordingWith(maxTimer, "listen")
                 ELSE UNCHANGED stopVars
            /\ isListeningRef' = FALSE
            /\ error' = NoError
       ELSE /\ error' = "Failed to stop listening"
            /\ UNCHANGED stopVars
            /\ UNCHANGED isListeningRef
  /\ UNCHANGED <<now, initRun, isInitialized, streamRef, cobraRef, audioContextRef,
                 pendingStart, isRecordingRef, mediaRecorderRef, chunksRef, delivered,
                 recordingStartTimeRef, silenceTimers, silenceTimeoutRef, nRec,
                 transcription, isProcessing, released, voicedPastMin, debounced,
                 onstops, pg_initRun, pg_isInitialized, pg_error, pg_streamRef,
                 pg_cobraRef, pg_isListeningRef, pg_pendingStart, pg_pendingStop,
                 pg_isRecordingRef, pg_mediaRecorderRef, pg_recState, pg_stopTask,
                 pg_chunksRef, pg_recordingStartTimeRef, pg_silenceTimers,
                 pg_silenceTimeoutRef, pg_nRec, pg_transcription, pg_isProcessing,
                 pg_onstop, vd_initRun, vd_isInitialized, vd_error, vd_streamRef,
                 vd_cobraRef, vd_isListeningRef, vd_pendingStart, vd_pendingStop,
                 vd_isRecordingRef, vd_mediaRecorderRef, vd_recState, vd_stopTask,
                 vd_audioChunksRef, vd_recordingStartTimeRef, vd_silenceTimers,
                 vd_silenceTimeoutRef, vd_nRec, vd_startTime, vd_audioClips,
                 vd_latestClip, ix_isListening, ix_isRecording, ix_audioPackets,
                 ix_memoListening, ix_pendingStart, ix_vads, ix_streamRef,
                 ix_mediaRecorderRef, ix_recState, ix_stopTask, ix_nRec,
                 ix_recListening, ix_audioChunksRef, ix_currentRecordingStartTime,
                 ix_silenceStartRef, ix_isLongPauseRef, ix_pauseTimers,
                 ix_pauseTimeoutRef, sv_clients, sv_sock, sv_isAlive, sv_buffer,
                 sv_timers, sv_timeoutVar, sv_requests, sv_out, sv_nextSweep,
                 sv_nAudio, sv_pinged, sv_swept, sd, av>>

\* ------------------------------------------------------------------- release
\* The cleanup of the mount effect (part_001:379-392): unsubscribe and release
\* are not awaited, the tracks of the stream are stopped, the audio context
\* is closed; no ref is reset and no timer is cleared.
\* recorderEnds: whether the browser stops a recording MediaRecorder whose
\* tracks have all ended (it then queues the dataavailable+stop task).
Unmount(recorderEnds) ==
  LET m == mediaRecorderRef
      rec == recorderEnds /\ streamRef /\ m # 0 /\ recState[m] = "recording"
  IN /\ initRun
     /\ ~released
     /\ released' = TRUE
     /\ recState' = IF rec THEN [recState EXCEPT ![m] = "inactive"] ELSE recState
     /\ stopTask' = IF rec THEN [stopTask EXCEPT ![m] = @ + 1] ELSE stopTask
     /\ stopBy' = IF rec THEN "ended" ELSE stopBy
     /\ UNCHANGED <<now, initRun, isInitialized, error, streamRef, cobraRef,
                    audioContextRef, isListeningRef, pendingStart, pendingStop,
                    isRecordingRef, mediaRecorderRef, chunksRef, delivered,
                    recordingStartTimeRef, silenceTimers, silenceTimeoutRef, maxTimer,
                    recordingTimeoutRef, nRec, jobs, processingQueueRef, transcription,
                    isProcessing, voicedPastMin, debounced, stopAttempts, onstops,
                    pg_initRun, pg_isInitialized, pg_error, pg_streamRef, pg_cobraRef,
                    pg_isListeningRef, pg_pendingStart, pg_pendingStop,
                    pg_isRecordingRef, pg_mediaRecorderRef, pg_recState, pg_stopTask,
                    pg_chunksRef, pg_recordingStartTimeRef, pg_silenceTimers,
                    pg_silenceTimeoutRef, pg_nRec, pg_transcription, pg_isProcessing,
                    pg_onstop, vd_initRun, vd_isInitialized, vd_error, vd_streamRef,
                    vd_cobraRef, vd_isListeningRef, vd_pendingStart, vd_pendingStop,
                    vd_isRecordingRef, vd_mediaRecorderRef, vd_recState, vd_stopTask,
                    vd_audioChunksRef, vd_recordingStartTimeRef, vd_silenceTimers,
                    vd_silenceTimeoutRef, vd_nRec, vd_startTime, vd_audioClips,
                    vd_latestClip, ix_isListening, ix_isRecording, ix_audioPackets,
                    ix_memoListening, ix_pendingStart, ix_vads, ix_streamRef,
                    ix_mediaRecorderRef, ix_recState, ix_stopTask, ix_nRec,
                    ix_recListening, ix_audioChunksRef, ix_currentRecordingStartTime,
                    ix_silenceStartRef, ix_isLongPauseRef, ix_pauseTimers,
                    ix_pauseTimeoutRef, sv_clients, sv_sock, sv_isAlive, sv_buffer,
                    sv_timers, sv_timeoutVar, sv_requests, sv_out, sv_nextSweep,
                    sv_nAudio, sv_pinged, sv_swept, sd, av>>

\* --------------------------------------------------------------------- clock
TimerDue ==
  \/ \E d \in silenceTimers : d <= now
  \/ \E d \in pg_silenceTimers : d <= now
  \/ \E d \in vd_silenceTimers : d <= now
  \/ \E d \in sd.silenceTimers : d <= now
  \/ \E d \in av.silenceTimers : d <= now
  \/ \E d \in ix_pauseTimers : d <= now
  \/ \E c \in Conns : \E d \in sv_timers[c] : d <= now
  \/ sv_nextSweep <= now
  \/ \E r \in Recs : maxTimer[r] # Null /\ maxTimer[r] <= now

Tick(step, limit) ==
  /\ now < limit
  /\ ~TimerDue
  /\ now' = now + step
  /\ UNCHANGED <<initRun, isInitialized, error, streamRef, cobraRef, audioContextRef,
                 isListeningRef, pendingStart, pendingStop, isRecordingRef,
                 mediaRecorderRef, recState, stopTask, chunksRef, delivered,
                 recordingStartTimeRef, silenceTimers, silenceTimeoutRef, maxTimer,
                 recordingTimeoutRef, nRec, jobs, processingQueueRef, transcription,
                 isProcessing, released, voicedPastMin, debounced, stopBy,
                 stopAttempts, onstops, pg_initRun, pg_isInitialized, pg_error,
                 pg_streamRef, pg_cobraRef, pg_isListeningRef, pg_pendingStart,
                 pg_pendingStop, pg_isRecordingRef, pg_mediaRecorderRef, pg_recState,
                 pg_stopTask, pg_chunksRef, pg_recordingStartTimeRef, pg_silenceTimers,
                 pg_silenceTimeoutRef, pg_nRec, pg_transcription, pg_isProcessing,
                 pg_onstop, vd_initRun, vd_isInitialized, vd_error, vd_streamRef,
                 vd_cobraRef, vd_isListeningRef, vd_pendingStart, vd_pendingStop,
                 vd_isRecordingRef, vd_mediaRecorderRef, vd_recState, vd_stopTask,
                 vd_audioChunksRef, vd_recordingStartTimeRef, vd_silenceTimers,
                 vd_silenceTimeoutRef, vd_nRec, vd_startTime, vd_audioClips,
                 vd_latestClip, ix_isListening, ix_isRecording, ix_audioPackets,
                 ix_memoListening, ix_pendingStart, ix_vads, ix_streamRef,
                 ix_mediaRecorderRef, ix_recState, ix_stopTask, ix_nRec,
                 ix_recListening, ix_audioChunksRef, ix_currentRecordingStartTime,
                 ix_silenceStartRef, ix_isLongPauseRef, ix_pauseTimers,
                 ix_pauseTimeoutRef, sv_clients, sv_sock, sv_isAlive, sv_buffer,
                 sv_timers, sv_timeoutVar, sv_requests, sv_out, sv_nextSweep,
                 sv_nAudio, sv_pinged, sv_swept, sd, av>>

\* ================================================================== Part II
\* RealtimeSpeechToText of src/src/app/page.tsx.  Its variables carry the
\* prefix pg_; it shares the clock.

\* page.tsx:371 (0.5, in hundredths)
PAGE_VOICE_PROBABILITY_THRESHOLD == 50
\* page.tsx:372-373 (milliseconds)
PAGE_SILENCE_DURATION_THRESHOLD == 1500
PAGE_MIN_RECORDING_DURATION == 500

TickPage == PAGE_SILENCE_DURATION_THRESHOLD
PageProbs == {PAGE_VOICE_PROBABILITY_THRESHOLD - 1, PAGE_VOICE_PROBABILITY_THRESHOLD,
              PAGE_VOICE_PROBABILITY_THRESHOLD + 1}
\* getEnvVariables (page.tsx:377-381): TRUE = the variable is set
PageEnv == [PICOVOICE_ACCESS_KEY |-> TRUE, SARVAM_API_KEY |-> TRUE]
\* The cobra callback is created by the mount effect (page.tsx:742-743,
\* 504-518), so the handleVoiceDetected and startRecording it reaches are the
\* closures of the first render, in which isProcessing is useState's initial
\* value (page.tsx:468).
isProcessingAtMount == FALSE

pageStartVars == <<pg_mediaRecorderRef, pg_recState, pg_chunksRef,
                   pg_recordingStartTimeRef, pg_isRecordingRef, pg_nRec, pg_error,
                   pg_isProcessing>>

\* initializeVoiceDetector (page.tsx:482-531), run once by the mount effect
PageInitializeVoiceDetector(outcome) ==
  /\ ~pg_initRun
  /\ pg_initRun' = TRUE
  /\ IF ~PageEnv.PICOVOICE_ACCESS_KEY
       THEN /\ pg_error' = "Picovoice access key is not configured in environment variables"
            /\ UNCHANGED <<pg_streamRef, pg_cobraRef, pg_isInitialized>>
       ELSE /\ pg_streamRef' = (outcome # "micDenied")
            /\ pg_cobraRef' = (outcome = "ok")
            /\ pg_isInitialized' = (outcome = "ok")
            /\ pg_error' = IF outcome = "ok" THEN NoError ELSE outcome
  /\ UNCHANGED <<now, initRun, isInitialized, error, streamRef, cobraRef,
                 audioContextRef, isListeningRef, pendingStart, pendingStop,
                 isRecordingRef, mediaRecorderRef, recState, stopTask, chunksRef,
                 delivered, recordingStartTimeRef, silenceTimers, silenceTimeoutRef,
                 maxTimer, recordingTimeoutRef, nRec, jobs, processingQueueRef,
                 transcription, isProcessing, released, voicedPastMin, debounced,
                 stopBy, stopAttempts, onstops, pg_isListeningRef, pg_pendingStart,
                 pg_pendingStop, pg_isRecordingRef, pg_mediaRecorderRef, pg_recState,
                 pg_stopTask, pg_chunksRef, pg_recordingStartTimeRef, pg_silenceTimers,
                 pg_silenceTimeoutRef, pg_nRec, pg_transcription, pg_isProcessing,
                 pg_onstop, vd_initRun, vd_isInitialized, vd_error, vd_streamRef,
                 vd_cobraRef, vd_isListeningRef, vd_pendingStart, vd_pendingStop,
                 vd_isRecordingRef, vd_mediaRecorderRef, vd_recState, vd_stopTask,
                 vd_audioChunksRef, vd_recordingStartTimeRef, vd_silenceTimers,
                 vd_silenceTimeoutRef, vd_nRec, vd_startTime, vd_audioClips,
                 vd_latestClip, ix_isListening, ix_isRecording, ix_audioPackets,
                 ix_memoListening, ix_pendingStart, ix_vads, ix_streamRef,
                 ix_mediaRecorderRef, ix_recState, ix_stopTask, ix_nRec,
                 ix_recListening, ix_audioChunksRef, ix_currentRecordingStartTime,
                 ix_silenceStartRef, ix_isLongPauseRef, ix_pauseTimers,
                 ix_pauseTimeoutRef, sv_clients, sv_sock, sv_isAlive, sv_buffer,
                 sv_timers, sv_timeoutVar, sv_requests, sv_out, sv_nextSweep,
                 sv_nAudio, sv_pinged, sv_swept, sd, av>>

\* stopRecording (page.tsx:702-707)
PageStopRecording ==
  LET m == pg_mediaRecorderRef
  IN IF m # 0 /\ pg_recState[m] = "recording"
       THEN /\ pg_recState' = [pg_recState EXCEPT ![m] = "inactive"]
            /\ pg_stopTask' = [pg_stopTask EXCEPT ![m] = @ + 1]
       ELSE UNCHANGED <<pg_recState, pg_stopTask>>

\* startRecording (page.tsx:637-700); it has no await, so it runs to its end.
\* outcome: whether `new MediaRecorder` (654) or `start` (692) throws.
PageStartRecording(outcome) ==
  IF \/ ~pg_streamRef
     \/ (pg_mediaRecorderRef # 0 /\ pg_recState[pg_mediaRecorderRef] = "recording")
     \/ isProcessingAtMount
    THEN UNCHANGED pageStartVars
    ELSE IF outcome = "ctorThrows"
      THEN /\ pg_error' = "Failed to start recording"
           /\ pg_isProcessing' = FALSE
           /\ UNCHANGED <<pg_mediaRecorderRef, pg_recState, pg_chunksRef,
                          pg_recordingStartTimeRef, pg_isRecordingRef, pg_nRec>>
      ELSE /\ pg_nRec < MaxSessions
           /\ pg_nRec' = pg_nRec + 1
           /\ pg_mediaRecorderRef' = pg_nRec + 1
           /\ pg_chunksRef' = <<>>
           /\ pg_recordingStartTimeRef' = DateNow
           /\ IF outcome = "startThrows"
                THEN /\ pg_recState' = [pg_recState EXCEPT ![pg_nRec + 1] = "inactive"]
                     /\ pg_error' = "Failed to start recording"
                     /\ pg_isProcessing' = FALSE
                     /\ UNCHANGED pg_isRecordingRef
                ELSE /\ pg_recState' = [pg_recState EXCEPT ![pg_nRec + 1] = "recording"]
                     /\ pg_isRecordingRef' = TRUE
                     /\ pg_isProcessing' = TRUE
                     /\ UNCHANGED pg_error

\* handleVoiceDetected (page.tsx:533-548)
PageHandleVoiceDetected(outcome) ==
  /\ pg_silenceTimers' = IF pg_silenceTimeoutRef # Null
                           THEN pg_silenceTimers \ {pg_silenceTimeoutRef}
                           ELSE pg_silenceTimers
  /\ pg_silenceTimeoutRef' = Null
  /\ IF ~pg_isRecordingRef /\ pg_isListeningRef /\ pg_streamRef /\ ~isProcessingAtMount
       THEN PageStartRecording(outcome)
       ELSE UNCHANGED pageStartVars
  /\ UNCHANGED <<now, initRun, isInitialized, error, streamRef, cobraRef,
                 audioContextRef, isListeningRef, pendingStart, pendingStop,
                 isRecordingRef, mediaRecorderRef, recState, stopTask, chunksRef,
                 delivered, recordingStartTimeRef, silenceTimers, silenceTimeoutRef,
                 maxTimer, recordingTimeoutRef, nRec, jobs, processingQueueRef,
                 transcription, isProcessing, released, voicedPastMin, debounced,
                 stopBy, stopAttempts, onstops, pg_initRun, pg_isInitialized,
                 pg_streamRef, pg_cobraRef, pg_isListeningRef, pg_pendingStart,
                 pg_pendingStop, pg_stopTask, pg_transcription, pg_onstop, vd_initRun,
                 vd_isInitialized, vd_error, vd_streamRef, vd_cobraRef,
                 vd_isListeningRef, vd_pendingStart, vd_pendingStop, vd_isRecordingRef,
                 vd_mediaRecorderRef, vd_recState, vd_stopTask, vd_audioChunksRef,
                 vd_recordingStartTimeRef, vd_silenceTimers, vd_silenceTimeoutRef,
                 vd_nRec, vd_startTime, vd_audioClips, vd_latestClip, ix_isListening,
                 ix_isRecording, ix_audioPackets, ix_memoListening, ix_pendingStart,
                 ix_vads, ix_streamRef, ix_mediaRecorderRef, ix_recState, ix_stopTask,
                 ix_nRec, ix_recListening, ix_audioChunksRef,
                 ix_currentRecordingStartTime, ix_silenceStartRef, ix_isLongPauseRef,
                 ix_pauseTimers, ix_pauseTimeoutRef, sv_clients, sv_sock, sv_isAlive,
                 sv_buffer, sv_timers, sv_timeoutVar, sv_requests, sv_out,
                 sv_nextSweep, sv_nAudio, sv_pinged, sv_swept, sd, av>>

\* handleSilenceDetected (page.tsx:550-558)
PageHandleSilenceDetected ==
  /\ IF pg_silenceTimeoutRef = Null /\ pg_isRecordingRef
       THEN /\ pg_silenceTimers' =
                 pg_silenceTimers \cup {now + PAGE_SILENCE_DURATION_THRESHOLD}
            /\ pg_silenceTimeoutRef' = now + PAGE_SILENCE_DURATION_THRESHOLD
       ELSE UNCHANGED <<pg_silenceTimers, pg_silenceTimeoutRef>>
  /\ UNCHANGED <<now, initRun, isInitialized, error, streamRef, cobraRef,
                 audioContextRef, isListeningRef, pendingStart, pendingStop,
                 isRecordingRef, mediaRecorderRef, recState, stopTask, chunksRef,
                 delivered, recordingStartTimeRef, silenceTimers, silenceTimeoutRef,
                 maxTimer, recordingTimeoutRef, nRec, jobs, processingQueueRef,
                 transcription, isProcessing, released, voicedPastMin, debounced,
                 stopBy, stopAttempts, onstops, pg_initRun, pg_isInitialized, pg_error,
                 pg_streamRef, pg_cobraRef, pg_isListeningRef, pg_pendingStart,
                 pg_pendingStop, pg_isRecordingRef, pg_mediaRecorderRef, pg_recState,
                 pg_stopTask, pg_chunksRef, pg_recordingStartTimeRef, pg_nRec,
                 pg_transcription, pg_isProcessing, pg_onstop, vd_initRun,
                 vd_isInitialized, vd_error, vd_streamRef, vd_cobraRef,
                 vd_isListeningRef, vd_pendingStart, vd_pendingStop, vd_isRecordingRef,
                 vd_mediaRecorderRef, vd_recState, vd_stopTask, vd_audioChunksRef,
                 vd_recordingStartTimeRef, vd_silenceTimers, vd_silenceTimeoutRef,
                 vd_nRec, vd_startTime, vd_audioClips, vd_latestClip, ix_isListening,
                 ix_isRecording, ix_audioPackets, ix_memoListening, ix_pendingStart,
                 ix_vads, ix_streamRef, ix_mediaRecorderRef, ix_recState, ix_stopTask,
                 ix_nRec, ix_recListening, ix_audioChunksRef,
                 ix_currentRecordingStartTime, ix_silenceStartRef, ix_isLongPauseRef,
                 ix_pauseTimers, ix_pauseTimeoutRef, sv_clients, sv_sock, sv_isAlive,
                 sv_buffer, sv_timers, sv_timeoutVar, sv_requests, sv_out,
                 sv_nextSweep, sv_nAudio, sv_pinged, sv_swept, sd, av>>

\* the CobraWorker callback (page.tsx:504-513)
PageHandleVoiceProbability(probability, outcome) ==
  /\ pg_cobraRef
  /\ IF probability >= PAGE_VOICE_PROBABILITY_THRESHOLD
       THEN PageHandleVoiceDetected(outcome)
       ELSE PageHandleSilenceDetected

\* the silence timer's callback (page.tsx:552-556)
PageSilenceTimeout(d) ==
  /\ d \in pg_silenceTimers
  /\ now >= d
  /\ pg_silenceTimers' = pg_silenceTimers \ {d}
  /\ PageStopRecording
  /\ pg_silenceTimeoutRef' = Null
  /\ UNCHANGED <<now, initRun, isInitialized, error, streamRef, cobraRef,
                 audioContextRef, isListeningRef, pendingStart, pendingStop,
                 isRecordingRef, mediaRecorderRef, recState, stopTask, chunksRef,
                 delivered, recordingStartTimeRef, silenceTimers, silenceTimeoutRef,
                 maxTimer, recordingTimeoutRef, nRec, jobs, processingQueueRef,
                 transcription, isProcessing, released, voicedPastMin, debounced,
                 stopBy, stopAttempts, onstops, pg_initRun, pg_isInitialized, pg_error,
                 pg_streamRef, pg_cobraRef, pg_isListeningRef, pg_pendingStart,
                 pg_pendingStop, pg_isRecordingRef, pg_mediaRecorderRef, pg_chunksRef,
                 pg_recordingStartTimeRef, pg_nRec, pg_transcription, pg_isProcessing,
                 pg_onstop, vd_initRun, vd_isInitialized, vd_error, vd_streamRef,
                 vd_cobraRef, vd_isListeningRef, vd_pendingStart, vd_pendingStop,
                 vd_isRecordingRef, vd_mediaRecorderRef, vd_recState, vd_stopTask,
                 vd_audioChunksRef, vd_recordingStartTimeRef, vd_silenceTimers,
                 vd_silenceTimeoutRef, vd_nRec, vd_startTime, vd_audioClips,
                 vd_latestClip, ix_isListening, ix_isRecording, ix_audioPackets,
                 ix_memoListening, ix_pendingStart, ix_vads, ix_streamRef,
                 ix_mediaRecorderRef, ix_recState, ix_stopTask, ix_nRec,
                 ix_recListening, ix_audioChunksRef, ix_currentRecordingStartTime,
                 ix_silenceStartRef, ix_isLongPauseRef, ix_pauseTimers,
                 ix_pauseTimeoutRef, sv_clients, sv_sock, sv_isAlive, sv_buffer,
                 sv_timers, sv_timeoutVar, sv_requests, sv_out, sv_nextSweep,
                 sv_nAudio, sv_pinged, sv_swept, sd, av>>

\* mediaRecorder.ondataavailable for a timeslice chunk (page.tsx:661-665)
PageOnDataAvailable(r, size) ==
  /\ pg_recState[r] = "recording"
  /\ Len(pg_chunksRef) < MaxChunks
  /\ pg_chunksRef' = IF size > 0 THEN Append(pg_chunksRef, r) ELSE pg_chunksRef
  /\ UNCHANGED <<now, initRun, isInitialized, error, streamRef, cobraRef,
                 audioContextRef, isListeningRef, pendingStart, pendingStop,
                 isRecordingRef, mediaRecorderRef, recState, stopTask, chunksRef,
                 delivered, recordingStartTimeRef, silenceTimers, silenceTimeoutRef,
                 maxTimer, recordingTimeoutRef, nRec, jobs, processingQueueRef,
                 transcription, isProcessing, released, voicedPastMin, debounced,
                 stopBy, stopAttempts, onstops, pg_initRun, pg_isInitialized, pg_error,
                 pg_streamRef, pg_cobraRef, pg_isListeningRef, pg_pendingStart,
                 pg_pendingStop, pg_isRecordingRef, pg_mediaRecorderRef, pg_recState,
                 pg_stopTask, pg_recordingStartTimeRef, pg_silenceTimers,
                 pg_silenceTimeoutRef, pg_nRec, pg_transcription, pg_isProcessing,
                 pg_onstop, vd_initRun, vd_isInitialized, vd_error, vd_streamRef,
                 vd_cobraRef, vd_isListeningRef, vd_pendingStart, vd_pendingStop,
                 vd_isRecordingRef, vd_mediaRecorderRef, vd_recState, vd_stopTask,
                 vd_audioChunksRef, vd_recordingStartTimeRef, vd_silenceTimers,
                 vd_silenceTimeoutRef, vd_nRec, vd_startTime, vd_audioClips,
                 vd_latestClip, ix_isListening, ix_isRecording, ix_audioPackets,
                 ix_memoListening, ix_pendingStart, ix_vads, ix_streamRef,
                 ix_mediaRecorderRef, ix_recState, ix_stopTask, ix_nRec,
                 ix_recListening, ix_audioChunksRef, ix_currentRecordingStartTime,
                 ix_silenceStartRef, ix_isLongPauseRef, ix_pauseTimers,
                 ix_pauseTimeoutRef, sv_clients, sv_sock, sv_isAlive, sv_buffer,
                 sv_timers, sv_timeoutVar, sv_requests, sv_out, sv_nextSweep,
                 sv_nAudio, sv_pinged, sv_swept, sd, av>>

\* the finally block of onstop (page.tsx:683-689)
PageOnStopFinally(r) ==
  /\ pg_chunksRef' = <<>>
  /\ pg_isRecordingRef' = FALSE
  /\ pg_recordingStartTimeRef' = Null
  /\ pg_isProcessing' = FALSE
  /\ pg_onstop' = [pg_onstop EXCEPT ![r] = "done"]

\* The task MediaRecorder.stop() queued for recorder r: dataavailable with the
\* rest of the data (page.tsx:661-665), then onstop (page.tsx:667-690) up to
\* its first suspension: with a clip to send it calls processAndSendAudio
\* (page.tsx:560-584), which suspends at `await blobToAudioBuffer`, and onstop
\* suspends at `await processAndSendAudio` (678).
PageRecorderStopTask(r, size) ==
  LET chunks == IF size > 0 THEN Append(pg_chunksRef, r) ELSE pg_chunksRef
      duration == DateNow - (IF pg_recordingStartTimeRef # Null
                               THEN pg_recordingStartTimeRef ELSE 0)
  IN /\ pg_stopTask[r] > 0
     /\ pg_stopTask' = [pg_stopTask EXCEPT ![r] = @ - 1]
     /\ IF duration >= PAGE_MIN_RECORDING_DURATION /\ Len(chunks) > 0
          THEN IF ~PageEnv.SARVAM_API_KEY
                 THEN /\ pg_error' = "Sarvam API key is not configured in environment variables"
                      /\ PageOnStopFinally(r)
                 ELSE /\ pg_onstop' = [pg_onstop EXCEPT ![r] = "decoding"]
                      /\ pg_chunksRef' = chunks
                      /\ UNCHANGED <<pg_error, pg_isRecordingRef,
                                     pg_recordingStartTimeRef, pg_isProcessing>>
          ELSE /\ PageOnStopFinally(r)
               /\ UNCHANGED pg_error
     /\ UNCHANGED <<now, initRun, isInitialized, error, streamRef, cobraRef,
                    audioContextRef, isListeningRef, pendingStart, pendingStop,
                    isRecordingRef, mediaRecorderRef, recState, stopTask, chunksRef,
                    delivered, recordingStartTimeRef, silenceTimers, silenceTimeoutRef,
                    maxTimer, recordingTimeoutRef, nRec, jobs, processingQueueRef,
                    transcription, isProcessing, released, voicedPastMin, debounced,
                    stopBy, stopAttempts, onstops, pg_initRun, pg_isInitialized,
                    pg_streamRef, pg_cobraRef, pg_isListeningRef, pg_pendingStart,
                    pg_pendingStop, pg_mediaRecorderRef, pg_recState, pg_silenceTimers,
                    pg_silenceTimeoutRef, pg_nRec, pg_transcription, vd_initRun,
                    vd_isInitialized, vd_error, vd_streamRef, vd_cobraRef,
                    vd_isListeningRef, vd_pendingStart, vd_pendingStop,
                    vd_isRecordingRef, vd_mediaRecorderRef, vd_recState, vd_stopTask,
                    vd_audioChunksRef, vd_recordingStartTimeRef, vd_silenceTimers,
                    vd_silenceTimeoutRef, vd_nRec, vd_startTime, vd_audioClips,
                    vd_latestClip, ix_isListening, ix_isRecording, ix_audioPackets,
                    ix_memoListening, ix_pendingStart, ix_vads, ix_streamRef,
                    ix_mediaRecorderRef, ix_recState, ix_stopTask, ix_nRec,
                    ix_recListening, ix_audioChunksRef, ix_currentRecordingStartTime,
                    ix_silenceStartRef, ix_isLongPauseRef, ix_pauseTimers,
                    ix_pauseTimeoutRef, sv_clients, sv_sock, sv_isAlive, sv_buffer,
                    sv_timers, sv_timeoutVar, sv_requests, sv_out, sv_nextSweep,
                    sv_nAudio, sv_pinged, sv_swept, sd, av>>

\* blobToAudioBuffer settles (page.tsx:584): processAndSendAudio goes on to
\* the fetch (587-611), or to its catch block (631-634), after which it
\* returns and onstop runs its finally block
PageDecoded(r, decodeOk) ==
  /\ pg_onstop[r] = "decoding"
  /\ IF decodeOk
       THEN /\ pg_onstop' = [pg_onstop EXCEPT ![r] = "fetching"]
            /\ UNCHANGED <<pg_error, pg_chunksRef, pg_isRecordingRef,
                           pg_recordingStartTimeRef, pg_isProcessing>>
       ELSE /\ pg_error' = "decode"
            /\ PageOnStopFinally(r)
  /\ UNCHANGED <<now, initRun, isInitialized, error, streamRef, cobraRef,
                 audioContextRef, isListeningRef, pendingStart, pendingStop,
                 isRecordingRef, mediaRecorderRef, recState, stopTask, chunksRef,
                 delivered, recordingStartTimeRef, silenceTimers, silenceTimeoutRef,
                 maxTimer, recordingTimeoutRef, nRec, jobs, processingQueueRef,
                 transcription, isProcessing, released, voicedPastMin, debounced,
                 stopBy, stopAttempts, onstops, pg_initRun, pg_isInitialized,
                 pg_streamRef, pg_cobraRef, pg_isListeningRef, pg_pendingStart,
                 pg_pendingStop, pg_mediaRecorderRef, pg_recState, pg_stopTask,
                 pg_silenceTimers, pg_silenceTimeoutRef, pg_nRec, pg_transcription,
                 vd_initRun, vd_isInitialized, vd_error, vd_streamRef, vd_cobraRef,
                 vd_isListeningRef, vd_pendingStart, vd_pendingStop, vd_isRecordingRef,
                 vd_mediaRecorderRef, vd_recState, vd_stopTask, vd_audioChunksRef,
                 vd_recordingStartTimeRef, vd_silenceTimers, vd_silenceTimeoutRef,
                 vd_nRec, vd_startTime, vd_audioClips, vd_latestClip, ix_isListening,
                 ix_isRecording, ix_audioPackets, ix_memoListening, ix_pendingStart,
                 ix_vads, ix_streamRef, ix_mediaRecorderRef, ix_recState, ix_stopTask,
                 ix_nRec, ix_recListening, ix_audioChunksRef,
                 ix_currentRecordingStartTime, ix_silenceStartRef, ix_isLongPauseRef,
                 ix_pauseTimers, ix_pauseTimeoutRef, sv_clients, sv_sock, sv_isAlive,
                 sv_buffer, sv_timers, sv_timeoutVar, sv_requests, sv_out,
                 sv_nextSweep, sv_nAudio, sv_pinged, sv_swept, sd, av>>

\* the fetch settles: processAndSendAudio runs to its end (page.tsx:613-634)
\* and onstop resumes with its finally block (683-689)
PageFetched(r, outcome) ==
  /\ pg_onstop[r] = "fetching"
  /\ IF outcome = "ok"
       THEN /\ pg_transcription' =
                 <<[transcript |-> IF pg_transcription # <<>>
                                     THEN pg_transcription[1].transcript \o Space
                                            \o TranscriptOf(r)
                                     ELSE TranscriptOf(r),
                    timestamps |-> r]>>
            /\ UNCHANGED pg_error
       ELSE /\ pg_error' = outcome
            /\ UNCHANGED pg_transcription
  /\ PageOnStopFinally(r)
  /\ UNCHANGED <<now, initRun, isInitialized, error, streamRef, cobraRef,
                 audioContextRef, isListeningRef, pendingStart, pendingStop,
                 isRecordingRef, mediaRecorderRef, recState, stopTask, chunksRef,
                 delivered, recordingStartTimeRef, silenceTimers, silenceTimeoutRef,
                 maxTimer, recordingTimeoutRef, nRec, jobs, processingQueueRef,
                 transcription, isProcessing, released, voicedPastMin, debounced,
                 stopBy, stopAttempts, onstops, pg_initRun, pg_isInitialized,
                 pg_streamRef, pg_cobraRef, pg_isListeningRef, pg_pendingStart,
                 pg_pendingStop, pg_mediaRecorderRef, pg_recState, pg_stopTask,
                 pg_silenceTimers, pg_silenceTimeoutRef, pg_nRec, vd_initRun,
                 vd_isInitialized, vd_error, vd_streamRef, vd_cobraRef,
                 vd_isListeningRef, vd_pendingStart, vd_pendingStop, vd_isRecordingRef,
                 vd_mediaRecorderRef, vd_recState, vd_stopTask, vd_audioChunksRef,
                 vd_recordingStartTimeRef, vd_silenceTimers, vd_silenceTimeoutRef,
                 vd_nRec, vd_startTime, vd_audioClips, vd_latestClip, ix_isListening,
                 ix_isRecording, ix_audioPackets, ix_memoListening, ix_pendingStart,
                 ix_vads, ix_streamRef, ix_mediaRecorderRef, ix_recState, ix_stopTask,
                 ix_nRec, ix_recListening, ix_audioChunksRef,
                 ix_currentRecordingStartTime, ix_silenceStartRef, ix_isLongPauseRef,
                 ix_pauseTimers, ix_pauseTimeoutRef, sv_clients, sv_sock, sv_isAlive,
                 sv_buffer, sv_timers, sv_timeoutVar, sv_requests, sv_out,
                 sv_nextSweep, sv_nAudio, sv_pinged, sv_swept, sd, av>>

\* startListening up to its await (page.tsx:709-713)
PageStartListeningCall ==
  /\ pg_isInitialized /\ pg_cobraRef
  /\ pg_pendingStart < MaxPending
  /\ pg_pendingStart' = pg_pendingStart + 1
  /\ UNCHANGED <<now, initRun, isInitialized, error, streamRef, cobraRef,
                 audioContextRef, isListeningRef, pendingStart, pendingStop,
                 isRecordingRef, mediaRecorderRef, recState, stopTask, chunksRef,
                 delivered, recordingStartTimeRef, silenceTimers, silenceTimeoutRef,
                 maxTimer, recordingTimeoutRef, nRec, jobs, processingQueueRef,
                 transcription, isProcessing, released, voicedPastMin, debounced,
                 stopBy, stopAttempts, onstops, pg_initRun, pg_isInitialized, pg_error,
                 pg_streamRef, pg_cobraRef, pg_isListeningRef, pg_pendingStop,
                 pg_isRecordingRef, pg_mediaRecorderRef, pg_recState, pg_stopTask,
                 pg_chunksRef, pg_recordingStartTimeRef, pg_silenceTimers,
                 pg_silenceTimeoutRef, pg_nRec, pg_transcription, pg_isProcessing,
                 pg_onstop, vd_initRun, vd_isInitialized, vd_error, vd_streamRef,
                 vd_cobraRef, vd_isListeningRef, vd_pendingStart, vd_pendingStop,
                 vd_isRecordingRef, vd_mediaRecorderRef, vd_recState, vd_stopTask,
                 vd_audioChunksRef, vd_recordingStartTimeRef, vd_silenceTimers,
                 vd_silenceTimeoutRef, vd_nRec, vd_startTime, vd_audioClips,
                 vd_latestClip, ix_isListening, ix_isRecording, ix_audioPackets,
                 ix_memoListening, ix_pendingStart, ix_vads, ix_streamRef,
                 ix_mediaRecorderRef, ix_recState, ix_stopTask, ix_nRec,
                 ix_recListening, ix_audioChunksRef, ix_currentRecordingStartTime,
                 ix_silenceStartRef, ix_isLongPauseRef, ix_pauseTimers,
                 ix_pauseTimeoutRef, sv_clients, sv_sock, sv_isAlive, sv_buffer,
                 sv_timers, sv_timeoutVar, sv_requests, sv_out, sv_nextSweep,
                 sv_nAudio, sv_pinged, sv_swept, sd, av>>

\* startListening after WebVoiceProcessor.subscribe settled (page.tsx:714-721)
PageStartListeningResume(subscribed) ==
  /\ pg_pendingStart > 0
  /\ pg_pendingStart' = pg_pendingStart - 1
  /\ IF subscribed
       THEN pg_isListeningRef' = TRUE /\ pg_error' = NoError
       ELSE pg_error' = "Failed to start listening" /\ UNCHANGED pg_isListeningRef
  /\ UNCHANGED <<now, initRun, isInitialized, error, streamRef, cobraRef,
                 audioContextRef, isListeningRef, pendingStart, pendingStop,
                 isRecordingRef, mediaRecorderRef, recState, stopTask, chunksRef,
                 delivered, recordingStartTimeRef, silenceTimers, silenceTimeoutRef,
                 maxTimer, recordingTimeoutRef, nRec, jobs, processingQueueRef,
                 transcription, isProcessing, released, voicedPastMin, debounced,
                 stopBy, stopAttempts, onstops, pg_initRun, pg_isInitialized,
                 pg_streamRef, pg_cobraRef, pg_pendingStop, pg_isRecordingRef,
                 pg_mediaRecorderRef, pg_recState, pg_stopTask, pg_chunksRef,
                 pg_recordingStartTimeRef, pg_silenceTimers, pg_silenceTimeoutRef,
                 pg_nRec, pg_transcription, pg_isProcessing, pg_onstop, vd_initRun,
                 vd_isInitialized, vd_error, vd_streamRef, vd_cobraRef,
                 vd_isListeningRef, vd_pendingStart, vd_pendingStop, vd_isRecordingRef,
                 vd_mediaRecorderRef, vd_recState, vd_stopTask, vd_audioChunksRef,
                 vd_recordingStartTimeRef, vd_silenceTimers, vd_silenceTimeoutRef,
                 vd_nRec, vd_startTime, vd_audioClips, vd_latestClip, ix_isListening,
                 ix_isRecording, ix_audioPackets, ix_memoListening, ix_pendingStart,
                 ix_vads, ix_streamRef, ix_mediaRecorderRef, ix_recState, ix_stopTask,
                 ix_nRec, ix_recListening, ix_audioChunksRef,
                 ix_currentRecordingStartTime, ix_silenceStartRef, ix_isLongPauseRef,
                 ix_pauseTimers, ix_pauseTimeoutRef, sv_clients, sv_sock, sv_isAlive,
                 sv_buffer, sv_timers, sv_timeoutVar, sv_requests, sv_out,
                 sv_nextSweep, sv_nAudio, sv_pinged, sv_swept, sd, av>>

\* stopListening up to its await (page.tsx:724-728)
PageStopListeningCall ==
  /\ pg_isListeningRef /\ pg_cobraRef
  /\ pg_pendingStop < MaxPending
  /\ pg_pendingStop' = pg_pendingStop + 1
  /\ UNCHANGED <<now, initRun, isInitialized, error, streamRef, cobraRef,
                 audioContextRef, isListeningRef, pendingStart, pendingStop,
                 isRecordingRef, mediaRecorderRef, recState, stopTask, chunksRef,
                 delivered, recordingStartTimeRef, silenceTimers, silenceTimeoutRef,
                 maxTimer, recordingTimeoutRef, nRec, jobs, processingQueueRef,
                 transcription, isProcessing, released, voicedPastMin, debounced,
                 stopBy, stopAttempts, onstops, pg_initRun, pg_isInitialized, pg_error,
                 pg_streamRef, pg_cobraRef, pg_isListeningRef, pg_pendingStart,
                 pg_isRecordingRef, pg_mediaRecorderRef, pg_recState, pg_stopTask,
                 pg_chunksRef, pg_recordingStartTimeRef, pg_silenceTimers,
                 pg_silenceTimeoutRef, pg_nRec, pg_transcription, pg_isProcessing,
                 pg_onstop, vd_initRun, vd_isInitialized, vd_error, vd_streamRef,
                 vd_cobraRef, vd_isListeningRef, vd_pendingStart, vd_pendingStop,
                 vd_isRecordingRef, vd_mediaRecorderRef, vd_recState, vd_stopTask,
                 vd_audioChunksRef, vd_recordingStartTimeRef, vd_silenceTimers,
                 vd_silenceTimeoutRef, vd_nRec, vd_startTime, vd_audioClips,
                 vd_latestClip, ix_isListening, ix_isRecording, ix_audioPackets,
                 ix_memoListening, ix_pendingStart, ix_vads, ix_streamRef,
                 ix_mediaRecorderRef, ix_recState, ix_stopTask, ix_nRec,
                 ix_recListening, ix_audioChunksRef, ix_currentRecordingStartTime,
                 ix_silenceStartRef, ix_isLongPauseRef, ix_pauseTimers,
                 ix_pauseTimeoutRef, sv_clients, sv_sock, sv_isAlive, sv_buffer,
                 sv_timers, sv_timeoutVar, sv_requests, sv_out, sv_nextSweep,
                 sv_nAudio, sv_pinged, sv_swept, sd, av>>

\* stopListening after WebVoiceProcessor.unsubscribe settled (page.tsx:729-739)
PageStopListeningResume(unsubscribed) ==
  /\ pg_pendingStop > 0
  /\ pg_pendingStop' = pg_pendingStop - 1
  /\ IF unsubscribed
       THEN /\ IF pg_isRecordingRef
                 THEN PageStopRecording
                 ELSE UNCHANGED <<pg_recState, pg_stopTask>>
            /\ pg_isListeningRef' = FALSE
            /\ pg_error' = NoError
       ELSE /\ pg_error' = "Failed to stop listening"
            /\ UNCHANGED <<pg_recState, pg_stopTask, pg_isListeningRef>>
  /\ UNCHANGED <<now, initRun, isInitialized, error, streamRef, cobraRef,
                 audioContextRef, isListeningRef, pendingStart, pendingStop,
                 isRecordingRef, mediaRecorderRef, recState, stopTask, chunksRef,
                 delivered, recordingStartTimeRef, silenceTimers, silenceTimeoutRef,
                 maxTimer, recordingTimeoutRef, nRec, jobs, processingQueueRef,
                 transcription, isProcessing, released, voicedPastMin, debounced,
                 stopBy, stopAttempts, onstops, pg_initRun, pg_isInitialized,
                 pg_streamRef, pg_cobraRef, pg_pendingStart, pg_isRecordingRef,
                 pg_mediaRecorderRef, pg_chunksRef, pg_recordingStartTimeRef,
                 pg_silenceTimers, pg_silenceTimeoutRef, pg_nRec, pg_transcription,
                 pg_isProcessing, pg_onstop, vd_initRun, vd_isInitialized, vd_error,
                 vd_streamRef, vd_cobraRef, vd_isListeningRef, vd_pendingStart,
                 vd_pendingStop, vd_isRecordingRef, vd_mediaRecorderRef, vd_recState,
                 vd_stopTask, vd_audioChunksRef, vd_recordingStartTimeRef,
                 vd_silenceTimers, vd_silenceTimeoutRef, vd_nRec, vd_startTime,
                 vd_audioClips, vd_latestClip, ix_isListening, ix_isRecording,
                 ix_audioPackets, ix_memoListening, ix_pendingStart, ix_vads,
                 ix_streamRef, ix_mediaRecorderRef, ix_recState, ix_stopTask, ix_nRec,
                 ix_recListening, ix_audioChunksRef, ix_currentRecordingStartTime,
                 ix_silenceStartRef, ix_isLongPauseRef, ix_pauseTimers,
                 ix_pauseTimeoutRef, sv_clients, sv_sock, sv_isAlive, sv_buffer,
                 sv_timers, sv_timeoutVar, sv_requests, sv_out, sv_nextSweep,
                 sv_nAudio, sv_pinged, sv_swept, sd, av>>

\* ================================================================= Part III
\* VoiceDetector of src/src/app/page.tsx (lines 19-341): the same capture
\* path without transcription; a finalized session becomes an audio clip.
\* Its variables carry the prefix vd_; it shares the clock.

\* page.tsx:8 (0.2, in hundredths)
VD_VOICE_PROBABILITY_THRESHOLD == 20
\* page.tsx:9-10 (milliseconds)
VD_SILENCE_DURATION_THRESHOLD == 1500
VD_MIN_RECORDING_DURATION == 500

DetectorProbs == {VD_VOICE_PROBABILITY_THRESHOLD - 1, VD_VOICE_PROBABILITY_THRESHOLD}
\* process.env.NEXT_PUBLIC_PICOVOICE_ACCESS_KEY may be unset (page.tsx:6)
DetectorInitOutcomes == {"ok", "noKey", "micDenied", "cobraFail"}

detectorStartVars == <<vd_mediaRecorderRef, vd_recState, vd_audioChunksRef,
                       vd_recordingStartTimeRef, vd_isRecordingRef, vd_nRec, vd_error,
                       vd_startTime>>

\* faulty variant: the component is marked initialized whatever happened
DetectorInitializeVoiceDetector_AlwaysReady(outcome) ==
  /\ ~vd_initRun
  /\ vd_initRun' = TRUE
  /\ vd_streamRef' = TRUE
  /\ vd_cobraRef' = TRUE
  /\ vd_isInitialized' = TRUE
  /\ vd_error' = IF outcome = "ok" THEN NoError ELSE outcome
  /\ UNCHANGED <<now, initRun, isInitialized, error, streamRef, cobraRef,
                 audioContextRef, isListeningRef, pendingStart, pendingStop,
                 isRecordingRef, mediaRecorderRef, recState, stopTask, chunksRef,
                 delivered, recordingStartTimeRef, silenceTimers, silenceTimeoutRef,
                 maxTimer, recordingTimeoutRef, nRec, jobs, processingQueueRef,
                 transcription, isProcessing, released, voicedPastMin, debounced,
                 stopBy, stopAttempts, onstops, pg_initRun, pg_isInitialized, pg_error,
                 pg_streamRef, pg_cobraRef, pg_isListeningRef, pg_pendingStart,
                 pg_pendingStop, pg_isRecordingRef, pg_mediaRecorderRef, pg_recState,
                 pg_stopTask, pg_chunksRef, pg_recordingStartTimeRef, pg_silenceTimers,
                 pg_silenceTimeoutRef, pg_nRec, pg_transcription, pg_isProcessing,
                 pg_onstop, vd_isListeningRef, vd_pendingStart, vd_pendingStop,
                 vd_isRecordingRef, vd_mediaRecorderRef, vd_recState, vd_stopTask,
                 vd_audioChunksRef, vd_recordingStartTimeRef, vd_silenceTimers,
                 vd_silenceTimeoutRef, vd_nRec, vd_startTime, vd_audioClips,
                 vd_latestClip, ix_isListening, ix_isRecording, ix_audioPackets,
                 ix_memoListening, ix_pendingStart, ix_vads, ix_streamRef,
                 ix_mediaRecorderRef, ix_recState, ix_stopTask, ix_nRec,
                 ix_recListening, ix_audioChunksRef, ix_currentRecordingStartTime,
                 ix_silenceStartRef, ix_isLongPauseRef, ix_pauseTimers,
                 ix_pauseTimeoutRef, sv_clients, sv_sock, sv_isAlive, sv_buffer,
                 sv_timers, sv_timeoutVar, sv_requests, sv_out, sv_nextSweep,
                 sv_nAudio, sv_pinged, sv_swept, sd, av>>

\* initializeVoiceDetector (page.tsx:65-107), run once by the mount effect
DetectorInitializeVoiceDetector(outcome) ==
  /\ ~vd_initRun
  /\ vd_initRun' = TRUE
  /\ IF outcome = "noKey"
       THEN /\ vd_error' = "Picovoice access key is not configured in environment variables"
            /\ UNCHANGED <<vd_streamRef, vd_cobraRef, vd_isInitialized>>
       ELSE /\ vd_streamRef' = (outcome # "micDenied")
            /\ vd_cobraRef' = (outcome = "ok")
            /\ vd_isInitialized' = (outcome = "ok")
            /\ vd_error' = IF outcome = "ok" THEN NoError ELSE outcome
  /\ UNCHANGED <<now, initRun, isInitialized, error, streamRef, cobraRef,
                 audioContextRef, isListeningRef, pendingStart, pendingStop,
                 isRecordingRef, mediaRecorderRef, recState, stopTask, chunksRef,
                 delivered, recordingStartTimeRef, silenceTimers, silenceTimeoutRef,
                 maxTimer, recordingTimeoutRef, nRec, jobs, processingQueueRef,
                 transcription, isProcessing, released, voicedPastMin, debounced,
                 stopBy, stopAttempts, onstops, pg_initRun, pg_isInitialized, pg_error,
                 pg_streamRef, pg_cobraRef, pg_isListeningRef, pg_pendingStart,
                 pg_pendingStop, pg_isRecordingRef, pg_mediaRecorderRef, pg_recState,
                 pg_stopTask, pg_chunksRef, pg_recordingStartTimeRef, pg_silenceTimers,
                 pg_silenceTimeoutRef, pg_nRec, pg_transcription, pg_isProcessing,
                 pg_onstop, vd_isListeningRef, vd_pendingStart, vd_pendingStop,
                 vd_isRecordingRef, vd_mediaRecorderRef, vd_recState, vd_stopTask,
                 vd_audioChunksRef, vd_recordingStartTimeRef, vd_silenceTimers,
                 vd_silenceTimeoutRef, vd_nRec, vd_startTime, vd_audioClips,
                 vd_latestClip, ix_isListening, ix_isRecording, ix_audioPackets,
                 ix_memoListening, ix_pendingStart, ix_vads, ix_streamRef,
                 ix_mediaRecorderRef, ix_recState, ix_stopTask, ix_nRec,
                 ix_recListening, ix_audioChunksRef, ix_currentRecordingStartTime,
                 ix_silenceStartRef, ix_isLongPauseRef, ix_pauseTimers,
                 ix_pauseTimeoutRef, sv_clients, sv_sock, sv_isAlive, sv_buffer,
                 sv_timers, sv_timeoutVar, sv_requests, sv_out, sv_nextSweep,
                 sv_nAudio, sv_pinged, sv_swept, sd, av>>

\* stopRecording (page.tsx:177-186)
DetectorStopRecording ==
  LET m == vd_mediaRecorderRef
  IN IF m # 0 /\ vd_recState[m] = "recording"
       THEN /\ vd_recState' = [vd_recState EXCEPT ![m] = "inactive"]
            /\ vd_stopTask' = [vd_stopTask EXCEPT ![m] = @ + 1]
       ELSE UNCHANGED <<vd_recState, vd_stopTask>>

\* startRecording (page.tsx:109-175); it has no await, so it runs to its end.
\* outcome: whether isTypeSupported fails or `new MediaRecorder` throws
\* (114-120), or `start` throws (168).
DetectorStartRecording(outcome) ==
  IF ~vd_streamRef \/ (vd_mediaRecorderRef # 0 /\ vd_recState[vd_mediaRecorderRef] = "recording")
    THEN UNCHANGED detectorStartVars
    ELSE IF outcome = "ctorThrows"
      THEN /\ vd_error' = "Failed to start recording"
           /\ UNCHANGED <<vd_mediaRecorderRef, vd_recState, vd_audioChunksRef,
                          vd_recordingStartTimeRef, vd_isRecordingRef, vd_nRec,
                          vd_startTime>>
      ELSE /\ vd_nRec < MaxSessions
           /\ vd_nRec' = vd_nRec + 1
           /\ vd_mediaRecorderRef' = vd_nRec + 1
           /\ vd_audioChunksRef' = <<>>
           /\ vd_recordingStartTimeRef' = DateNow
           /\ vd_startTime' = [vd_startTime EXCEPT ![vd_nRec + 1] = DateNow]
           /\ IF outcome = "startThrows"
                THEN /\ vd_recState' = [vd_recState EXCEPT ![vd_nRec + 1] = "inactive"]
                     /\ vd_error' = "Failed to start recording"
                     /\ UNCHANGED vd_isRecordingRef
                ELSE /\ vd_recState' = [vd_recState EXCEPT ![vd_nRec + 1] = "recording"]
                     /\ vd_isRecordingRef' = TRUE
                     /\ UNCHANGED vd_error

\* handleVoiceDetected (page.tsx:36-54); startRecording catches its own
\* errors, so the catch block here is never entered
DetectorHandleVoiceDetected(outcome) ==
  /\ vd_silenceTimers' = IF vd_silenceTimeoutRef # Null
                           THEN vd_silenceTimers \ {vd_silenceTimeoutRef}
                           ELSE vd_silenceTimers
  /\ vd_silenceTimeoutRef' = Null
  /\ IF ~vd_isRecordingRef /\ vd_isListeningRef /\ vd_streamRef
       THEN DetectorStartRecording(outcome)
       ELSE UNCHANGED detectorStartVars
  /\ UNCHANGED <<now, initRun, isInitialized, error, streamRef, cobraRef,
                 audioContextRef, isListeningRef, pendingStart, pendingStop,
                 isRecordingRef, mediaRecorderRef, recState, stopTask, chunksRef,
                 delivered, recordingStartTimeRef, silenceTimers, silenceTimeoutRef,
                 maxTimer, recordingTimeoutRef, nRec, jobs, processingQueueRef,
                 transcription, isProcessing, released, voicedPastMin, debounced,
                 stopBy, stopAttempts, onstops, pg_initRun, pg_isInitialized, pg_error,
                 pg_streamRef, pg_cobraRef, pg_isListeningRef, pg_pendingStart,
                 pg_pendingStop, pg_isRecordingRef, pg_mediaRecorderRef, pg_recState,
                 pg_stopTask, pg_chunksRef, pg_recordingStartTimeRef, pg_silenceTimers,
                 pg_silenceTimeoutRef, pg_nRec, pg_transcription, pg_isProcessing,
                 pg_onstop, vd_initRun, vd_isInitialized, vd_streamRef, vd_cobraRef,
                 vd_isListeningRef, vd_pendingStart, vd_pendingStop, vd_stopTask,
                 vd_audioClips, vd_latestClip, ix_isListening, ix_isRecording,
                 ix_audioPackets, ix_memoListening, ix_pendingStart, ix_vads,
                 ix_streamRef, ix_mediaRecorderRef, ix_recState, ix_stopTask, ix_nRec,
                 ix_recListening, ix_audioChunksRef, ix_currentRecordingStartTime,
                 ix_silenceStartRef, ix_isLongPauseRef, ix_pauseTimers,
                 ix_pauseTimeoutRef, sv_clients, sv_sock, sv_isAlive, sv_buffer,
                 sv_timers, sv_timeoutVar, sv_requests, sv_out, sv_nextSweep,
                 sv_nAudio, sv_pinged, sv_swept, sd, av>>

\* handleSilenceDetected (page.tsx:56-63)
DetectorHandleSilenceDetected ==
  /\ IF vd_silenceTimeoutRef = Null /\ vd_isRecordingRef
       THEN /\ vd_silenceTimers' =
                 vd_silenceTimers \cup {now + VD_SILENCE_DURATION_THRESHOLD}
            /\ vd_silenceTimeoutRef' = now + VD_SILENCE_DURATION_THRESHOLD
       ELSE UNCHANGED <<vd_silenceTimers, vd_silenceTimeoutRef>>
  /\ UNCHANGED <<now, initRun, isInitialized, error, streamRef, cobraRef,
                 audioContextRef, isListeningRef, pendingStart, pendingStop,
                 isRecordingRef, mediaRecorderRef, recState, stopTask, chunksRef,
                 delivered, recordingStartTimeRef, silenceTimers, silenceTimeoutRef,
                 maxTimer, recordingTimeoutRef, nRec, jobs, processingQueueRef,
                 transcription, isProcessing, released, voicedPastMin, debounced,
                 stopBy, stopAttempts, onstops, pg_initRun, pg_isInitialized, pg_error,
                 pg_streamRef, pg_cobraRef, pg_isListeningRef, pg_pendingStart,
                 pg_pendingStop, pg_isRecordingRef, pg_mediaRecorderRef, pg_recState,
                 pg_stopTask, pg_chunksRef, pg_recordingStartTimeRef, pg_silenceTimers,
                 pg_silenceTimeoutRef, pg_nRec, pg_transcription, pg_isProcessing,
                 pg_onstop, vd_initRun, vd_isInitialized, vd_error, vd_streamRef,
                 vd_cobraRef, vd_isListeningRef, vd_pendingStart, vd_pendingStop,
                 vd_isRecordingRef, vd_mediaRecorderRef, vd_recState, vd_stopTask,
                 vd_audioChunksRef, vd_recordingStartTimeRef, vd_nRec, vd_startTime,
                 vd_audioClips, vd_latestClip, ix_isListening, ix_isRecording,
                 ix_audioPackets, ix_memoListening, ix_pendingStart, ix_vads,
                 ix_streamRef, ix_mediaRecorderRef, ix_recState, ix_stopTask, ix_nRec,
                 ix_recListening, ix_audioChunksRef, ix_currentRecordingStartTime,
                 ix_silenceStartRef, ix_isLongPauseRef, ix_pauseTimers,
                 ix_pauseTimeoutRef, sv_clients, sv_sock, sv_isAlive, sv_buffer,
                 sv_timers, sv_timeoutVar, sv_requests, sv_out, sv_nextSweep,
                 sv_nAudio, sv_pinged, sv_swept, sd, av>>

\* handleVoiceProbability, the CobraWorker callback (page.tsx:83-89)
DetectorHandleVoiceProbability(probability, outcome) ==
  /\ vd_cobraRef
  /\ IF probability >= VD_VOICE_PROBABILITY_THRESHOLD
       THEN DetectorHandleVoiceDetected(outcome)
       ELSE DetectorHandleSilenceDetected

\* the silence timer's callback (page.tsx:58-61)
DetectorSilenceTimeout(d) ==
  /\ d \in vd_silenceTimers
  /\ now >= d
  /\ vd_silenceTimers' = vd_silenceTimers \ {d}
  /\ DetectorStopRecording
  /\ vd_silenceTimeoutRef' = Null
  /\ UNCHANGED <<now, initRun, isInitialized, error, streamRef, cobraRef,
                 audioContextRef, isListeningRef, pendingStart, pendingStop,
                 isRecordingRef, mediaRecorderRef, recState, stopTask, chunksRef,
                 delivered, recordingStartTimeRef, silenceTimers, silenceTimeoutRef,
                 maxTimer, recordingTimeoutRef, nRec, jobs, processingQueueRef,
                 transcription, isProcessing, released, voicedPastMin, debounced,
                 stopBy, stopAttempts, onstops, pg_initRun, pg_isInitialized, pg_error,
                 pg_streamRef, pg_cobraRef, pg_isListeningRef, pg_pendingStart,
                 pg_pendingStop, pg_isRecordingRef, pg_mediaRecorderRef, pg_recState,
                 pg_stopTask, pg_chunksRef, pg_recordingStartTimeRef, pg_silenceTimers,
                 pg_silenceTimeoutRef, pg_nRec, pg_transcription, pg_isProcessing,
                 pg_onstop, vd_initRun, vd_isInitialized, vd_error, vd_streamRef,
                 vd_cobraRef, vd_isListeningRef, vd_pendingStart, vd_pendingStop,
                 vd_isRecordingRef, vd_mediaRecorderRef, vd_audioChunksRef,
                 vd_recordingStartTimeRef, vd_nRec, vd_startTime, vd_audioClips,
                 vd_latestClip, ix_isListening, ix_isRecording, ix_audioPackets,
                 ix_memoListening, ix_pendingStart, ix_vads, ix_streamRef,
                 ix_mediaRecorderRef, ix_recState, ix_stopTask, ix_nRec,
                 ix_recListening, ix_audioChunksRef, ix_currentRecordingStartTime,
                 ix_silenceStartRef, ix_isLongPauseRef, ix_pauseTimers,
                 ix_pauseTimeoutRef, sv_clients, sv_sock, sv_isAlive, sv_buffer,
                 sv_timers, sv_timeoutVar, sv_requests, sv_out, sv_nextSweep,
                 sv_nAudio, sv_pinged, sv_swept, sd, av>>

\* mediaRecorder.ondataavailable for a timeslice chunk (page.tsx:127-131)
DetectorOnDataAvailable(r, size) ==
  /\ vd_recState[r] = "recording"
  /\ Len(vd_audioChunksRef) < MaxChunks
  /\ vd_audioChunksRef' = IF size > 0 THEN Append(vd_audioChunksRef, r)
                                      ELSE vd_audioChunksRef
  /\ UNCHANGED <<now, initRun, isInitialized, error, streamRef, cobraRef,
                 audioContextRef, isListeningRef, pendingStart, pendingStop,
                 isRecordingRef, mediaRecorderRef, recState, stopTask, chunksRef,
                 delivered, recordingStartTimeRef, silenceTimers, silenceTimeoutRef,
                 maxTimer, recordingTimeoutRef, nRec, jobs, processingQueueRef,
                 transcription, isProcessing, released, voicedPastMin, debounced,
                 stopBy, stopAttempts, onstops, pg_initRun, pg_isInitialized, pg_error,
                 pg_streamRef, pg_cobraRef, pg_isListeningRef, pg_pendingStart,
                 pg_pendingStop, pg_isRecordingRef, pg_mediaRecorderRef, pg_recState,
                 pg_stopTask, pg_chunksRef, pg_recordingStartTimeRef, pg_silenceTimers,
                 pg_silenceTimeoutRef, pg_nRec, pg_transcription, pg_isProcessing,
                 pg_onstop, vd_initRun, vd_isInitialized, vd_error, vd_streamRef,
                 vd_cobraRef, vd_isListeningRef, vd_pendingStart, vd_pendingStop,
                 vd_isRecordingRef, vd_mediaRecorderRef, vd_recState, vd_stopTask,
                 vd_recordingStartTimeRef, vd_silenceTimers, vd_silenceTimeoutRef,
                 vd_nRec, vd_startTime, vd_audioClips, vd_latestClip, ix_isListening,
                 ix_isRecording, ix_audioPackets, ix_memoListening, ix_pendingStart,
                 ix_vads, ix_streamRef, ix_mediaRecorderRef, ix_recState, ix_stopTask,
                 ix_nRec, ix_recListening, ix_audioChunksRef,
                 ix_currentRecordingStartTime, ix_silenceStartRef, ix_isLongPauseRef,
                 ix_pauseTimers, ix_pauseTimeoutRef, sv_clients, sv_sock, sv_isAlive,
                 sv_buffer, sv_timers, sv_timeoutVar, sv_requests, sv_out,
                 sv_nextSweep, sv_nAudio, sv_pinged, sv_swept, sd, av>>

\* The task MediaRecorder.stop() queued for recorder r: dataavailable with the
\* rest of the data (page.tsx:127-131), then onstop (133-165).  The duration
\* is taken from the startTime of the closure.  made: whether the Blob and its
\* object URL could be created (141-159).  The clip's duration is
\* duration / 1000 seconds, kept in thousandths of a second.
DetectorRecorderStopTask(r, size, made) ==
  LET chunks == IF size > 0 THEN Append(vd_audioChunksRef, r) ELSE vd_audioChunksRef
      duration == DateNow - vd_startTime[r]
      newClip == [session |-> r, blob |-> chunks, duration |-> duration]
  IN /\ vd_stopTask[r] > 0
     /\ vd_stopTask' = [vd_stopTask EXCEPT ![r] = @ - 1]
     /\ IF duration >= VD_MIN_RECORDING_DURATION /\ Len(chunks) > 0
          THEN IF made
                 THEN /\ vd_latestClip' = <<newClip>>
                      /\ vd_audioClips' = <<newClip>> \o vd_audioClips
                      /\ UNCHANGED vd_error
                 ELSE /\ vd_error' = "Failed to create audio clip"
                      /\ UNCHANGED <<vd_audioClips, vd_latestClip>>
          ELSE UNCHANGED <<vd_audioClips, vd_latestClip, vd_error>>
     /\ vd_audioChunksRef' = <<>>
     /\ vd_isRecordingRef' = FALSE
     /\ vd_recordingStartTimeRef' = Null
     /\ vd_startTime' = [vd_startTime EXCEPT ![r] = Null]
     /\ UNCHANGED <<now, initRun, isInitialized, error, streamRef, cobraRef,
                    audioContextRef, isListeningRef, pendingStart, pendingStop,
                    isRecordingRef, mediaRecorderRef, recState, stopTask, chunksRef,
                    delivered, recordingStartTimeRef, silenceTimers, silenceTimeoutRef,
                    maxTimer, recordingTimeoutRef, nRec, jobs, processingQueueRef,
                    transcription, isProcessing, released, voicedPastMin, debounced,
                    stopBy, stopAttempts, onstops, pg_initRun, pg_isInitialized,
                    pg_error, pg_streamRef, pg_cobraRef, pg_isListeningRef,
                    pg_pendingStart, pg_pendingStop, pg_isRecordingRef,
                    pg_mediaRecorderRef, pg_recState, pg_stopTask, pg_chunksRef,
                    pg_recordingStartTimeRef, pg_silenceTimers, pg_silenceTimeoutRef,
                    pg_nRec, pg_transcription, pg_isProcessing, pg_onstop, vd_initRun,
                    vd_isInitialized, vd_streamRef, vd_cobraRef, vd_isListeningRef,
                    vd_pendingStart, vd_pendingStop, vd_mediaRecorderRef, vd_recState,
                    vd_silenceTimers, vd_silenceTimeoutRef, vd_nRec, ix_isListening,
                    ix_isRecording, ix_audioPackets, ix_memoListening, ix_pendingStart,
                    ix_vads, ix_streamRef, ix_mediaRecorderRef, ix_recState,
                    ix_stopTask, ix_nRec, ix_recListening, ix_audioChunksRef,
                    ix_currentRecordingStartTime, ix_silenceStartRef,
                    ix_isLongPauseRef, ix_pauseTimers, ix_pauseTimeoutRef, sv_clients,
                    sv_sock, sv_isAlive, sv_buffer, sv_timers, sv_timeoutVar,
                    sv_requests, sv_out, sv_nextSweep, sv_nAudio, sv_pinged, sv_swept,
                    sd, av>>

\* startListening up to its await (page.tsx:188-192); with the guard false it
\* returns and nothing changes
DetectorStartListeningCall ==
  /\ vd_isInitialized /\ vd_cobraRef
  /\ vd_pendingStart < MaxPending
  /\ vd_pendingStart' = vd_pendingStart + 1
  /\ UNCHANGED <<now, initRun, isInitialized, error, streamRef, cobraRef,
                 audioContextRef, isListeningRef, pendingStart, pendingStop,
                 isRecordingRef, mediaRecorderRef, recState, stopTask, chunksRef,
                 delivered, recordingStartTimeRef, silenceTimers, silenceTimeoutRef,
                 maxTimer, recordingTimeoutRef, nRec, jobs, processingQueueRef,
                 transcription, isProcessing, released, voicedPastMin, debounced,
                 stopBy, stopAttempts, onstops, pg_initRun, pg_isInitialized, pg_error,
                 pg_streamRef, pg_cobraRef, pg_isListeningRef, pg_pendingStart,
                 pg_pendingStop, pg_isRecordingRef, pg_mediaRecorderRef, pg_recState,
                 pg_stopTask, pg_chunksRef, pg_recordingStartTimeRef, pg_silenceTimers,
                 pg_silenceTimeoutRef, pg_nRec, pg_transcription, pg_isProcessing,
                 pg_onstop, vd_initRun, vd_isInitialized, vd_error, vd_streamRef,
                 vd_cobraRef, vd_isListeningRef, vd_pendingStop, vd_isRecordingRef,
                 vd_mediaRecorderRef, vd_recState, vd_stopTask, vd_audioChunksRef,
                 vd_recordingStartTimeRef, vd_silenceTimers, vd_silenceTimeoutRef,
                 vd_nRec, vd_startTime, vd_audioClips, vd_latestClip, ix_isListening,
                 ix_isRecording, ix_audioPackets, ix_memoListening, ix_pendingStart,
                 ix_vads, ix_streamRef, ix_mediaRecorderRef, ix_recState, ix_stopTask,
                 ix_nRec, ix_recListening, ix_audioChunksRef,
                 ix_currentRecordingStartTime, ix_silenceStartRef, ix_isLongPauseRef,
                 ix_pauseTimers, ix_pauseTimeoutRef, sv_clients, sv_sock, sv_isAlive,
                 sv_buffer, sv_timers, sv_timeoutVar, sv_requests, sv_out,
                 sv_nextSweep, sv_nAudio, sv_pinged, sv_swept, sd, av>>

\* startListening after WebVoiceProcessor.subscribe settled (page.tsx:192-199)
DetectorStartListeningResume(subscribed) ==
  /\ vd_pendingStart > 0
  /\ vd_pendingStart' = vd_pendingStart - 1
  /\ IF subscribed
       THEN vd_isListeningRef' = TRUE /\ vd_error' = NoError
       ELSE vd_error' = "Failed to start listening" /\ UNCHANGED vd_isListeningRef
  /\ UNCHANGED <<now, initRun, isInitialized, error, streamRef, cobraRef,
                 audioContextRef, isListeningRef, pendingStart, pendingStop,
                 isRecordingRef, mediaRecorderRef, recState, stopTask, chunksRef,
                 delivered, recordingStartTimeRef, silenceTimers, silenceTimeoutRef,
                 maxTimer, recordingTimeoutRef, nRec, jobs, processingQueueRef,
                 transcription, isProcessing, released, voicedPastMin, debounced,
                 stopBy, stopAttempts, onstops, pg_initRun, pg_isInitialized, pg_error,
                 pg_streamRef, pg_cobraRef, pg_isListeningRef, pg_pendingStart,
                 pg_pendingStop, pg_isRecordingRef, pg_mediaRecorderRef, pg_recState,
                 pg_stopTask, pg_chunksRef, pg_recordingStartTimeRef, pg_silenceTimers,
                 pg_silenceTimeoutRef, pg_nRec, pg_transcription, pg_isProcessing,
                 pg_onstop, vd_initRun, vd_isInitialized, vd_streamRef, vd_cobraRef,
                 vd_pendingStop, vd_isRecordingRef, vd_mediaRecorderRef, vd_recState,
                 vd_stopTask, vd_audioChunksRef, vd_recordingStartTimeRef,
                 vd_silenceTimers, vd_silenceTimeoutRef, vd_nRec, vd_startTime,
                 vd_audioClips, vd_latestClip, ix_isListening, ix_isRecording,
                 ix_audioPackets, ix_memoListening, ix_pendingStart, ix_vads,
                 ix_streamRef, ix_mediaRecorderRef, ix_recState, ix_stopTask, ix_nRec,
                 ix_recListening, ix_audioChunksRef, ix_currentRecordingStartTime,
                 ix_silenceStartRef, ix_isLongPauseRef, ix_pauseTimers,
                 ix_pauseTimeoutRef, sv_clients, sv_sock, sv_isAlive, sv_buffer,
                 sv_timers, sv_timeoutVar, sv_requests, sv_out, sv_nextSweep,
                 sv_nAudio, sv_pinged, sv_swept, sd, av>>

\* stopListening up to its await (page.tsx:202-206)
DetectorStopListeningCall ==
  /\ vd_isListeningRef /\ vd_cobraRef
  /\ vd_pendingStop < MaxPending
  /\ vd_pendingStop' = vd_pendingStop + 1
  /\ UNCHANGED <<now, initRun, isInitialized, error, streamRef, cobraRef,
                 audioContextRef, isListeningRef, pendingStart, pendingStop,
                 isRecordingRef, mediaRecorderRef, recState, stopTask, chunksRef,
                 delivered, recordingStartTimeRef, silenceTimers, silenceTimeoutRef,
                 maxTimer, recordingTimeoutRef, nRec, jobs, processingQueueRef,
                 transcription, isProcessing, released, voicedPastMin, debounced,
                 stopBy, stopAttempts, onstops, pg_initRun, pg_isInitialized, pg_error,
                 pg_streamRef, pg_cobraRef, pg_isListeningRef, pg_pendingStart,
                 pg_pendingStop, pg_isRecordingRef, pg_mediaRecorderRef, pg_recState,
                 pg_stopTask, pg_chunksRef, pg_recordingStartTimeRef, pg_silenceTimers,
                 pg_silenceTimeoutRef, pg_nRec, pg_transcription, pg_isProcessing,
                 pg_onstop, vd_initRun, vd_isInitialized, vd_error, vd_streamRef,
                 vd_cobraRef, vd_isListeningRef, vd_pendingStart, vd_isRecordingRef,
                 vd_mediaRecorderRef, vd_recState, vd_stopTask, vd_audioChunksRef,
                 vd_recordingStartTimeRef, vd_silenceTimers, vd_silenceTimeoutRef,
                 vd_nRec, vd_startTime, vd_audioClips, vd_latestClip, ix_isListening,
                 ix_isRecording, ix_audioPackets, ix_memoListening, ix_pendingStart,
                 ix_vads, ix_streamRef, ix_mediaRecorderRef, ix_recState, ix_stopTask,
                 ix_nRec, ix_recListening, ix_audioChunksRef,
                 ix_currentRecordingStartTime, ix_silenceStartRef, ix_isLongPauseRef,
                 ix_pauseTimers, ix_pauseTimeoutRef, sv_clients, sv_sock, sv_isAlive,
                 sv_buffer, sv_timers, sv_timeoutVar, sv_requests, sv_out,
                 sv_nextSweep, sv_nAudio, sv_pinged, sv_swept, sd, av>>

\* stopListening after WebVoiceProcessor.unsubscribe settled (page.tsx:206-217)
DetectorStopListeningResume(unsubscribed) ==
  /\ vd_pendingStop > 0
  /\ vd_pendingStop' = vd_pendingStop - 1
  /\ IF unsubscribed
       THEN /\ IF vd_isRecordingRef
                 THEN DetectorStopRecording
                 ELSE UNCHANGED <<vd_recState, vd_stopTask>>
            /\ vd_isListeningRef' = FALSE
            /\ vd_error' = NoError
       ELSE /\ vd_error' = "Failed to stop listening"
            /\ UNCHANGED <<vd_recState, vd_stopTask, vd_isListeningRef>>
  /\ UNCHANGED <<now, initRun, isInitialized, error, streamRef, cobraRef,
                 audioContextRef, isListeningRef, pendingStart, pendingStop,
                 isRecordingRef, mediaRecorderRef, recState, stopTask, chunksRef,
                 delivered, recordingStartTimeRef, silenceTimers, silenceTimeoutRef,
                 maxTimer, recordingTimeoutRef, nRec, jobs, processingQueueRef,
                 transcription, isProcessing, released, voicedPastMin, debounced,
                 stopBy, stopAttempts, onstops, pg_initRun, pg_isInitialized, pg_error,
                 pg_streamRef, pg_cobraRef, pg_isListeningRef, pg_pendingStart,
                 pg_pendingStop, pg_isRecordingRef, pg_mediaRecorderRef, pg_recState,
                 pg_stopTask, pg_chunksRef, pg_recordingStartTimeRef, pg_silenceTimers,
                 pg_silenceTimeoutRef, pg_nRec, pg_transcription, pg_isProcessing,
                 pg_onstop, vd_initRun, vd_isInitialized, vd_streamRef, vd_cobraRef,
                 vd_pendingStart, vd_isRecordingRef, vd_mediaRecorderRef,
                 vd_audioChunksRef, vd_recordingStartTimeRef, vd_silenceTimers,
                 vd_silenceTimeoutRef, vd_nRec, vd_startTime, vd_audioClips,
                 vd_latestClip, ix_isListening, ix_isRecording, ix_audioPackets,
                 ix_memoListening, ix_pendingStart, ix_vads, ix_streamRef,
                 ix_mediaRecorderRef, ix_recState, ix_stopTask, ix_nRec,
                 ix_recListening, ix_audioChunksRef, ix_currentRecordingStartTime,
                 ix_silenceStartRef, ix_isLongPauseRef, ix_pauseTimers,
                 ix_pauseTimeoutRef, sv_clients, sv_sock, sv_isAlive, sv_buffer,
                 sv_timers, sv_timeoutVar, sv_requests, sv_out, sv_nextSweep,
                 sv_nAudio, sv_pinged, sv_swept, sd, av>>


\* faulty variant: the clips are emptied and latestClip is kept
DetectorClearRecordings_KeepsLatest ==
  /\ vd_audioClips # <<>>
  /\ vd_audioClips' = <<>>
  /\ UNCHANGED <<now, initRun, isInitialized, error, streamRef, cobraRef,
                 audioContextRef, isListeningRef, pendingStart, pendingStop,
                 isRecordingRef, mediaRecorderRef, recState, stopTask, chunksRef,
                 delivered, recordingStartTimeRef, silenceTimers, silenceTimeoutRef,
                 maxTimer, recordingTimeoutRef, nRec, jobs, processingQueueRef,
                 transcription, isProcessing, released, voicedPastMin, debounced,
                 stopBy, stopAttempts, onstops, pg_initRun, pg_isInitialized, pg_error,
                 pg_streamRef, pg_cobraRef, pg_isListeningRef, pg_pendingStart,
                 pg_pendingStop, pg_isRecordingRef, pg_mediaRecorderRef, pg_recState,
                 pg_stopTask, pg_chunksRef, pg_recordingStartTimeRef, pg_silenceTimers,
                 pg_silenceTimeoutRef, pg_nRec, pg_transcription, pg_isProcessing,
                 pg_onstop, vd_initRun, vd_isInitialized, vd_error, vd_streamRef,
                 vd_cobraRef, vd_isListeningRef, vd_pendingStart, vd_pendingStop,
                 vd_isRecordingRef, vd_mediaRecorderRef, vd_recState, vd_stopTask,
                 vd_audioChunksRef, vd_recordingStartTimeRef, vd_silenceTimers,
                 vd_silenceTimeoutRef, vd_nRec, vd_startTime, vd_latestClip,
                 ix_isListening, ix_isRecording, ix_audioPackets, ix_memoListening,
                 ix_pendingStart, ix_vads, ix_streamRef, ix_mediaRecorderRef,
                 ix_recState, ix_stopTask, ix_nRec, ix_recListening, ix_audioChunksRef,
                 ix_currentRecordingStartTime, ix_silenceStartRef, ix_isLongPauseRef,
                 ix_pauseTimers, ix_pauseTimeoutRef, sv_clients, sv_sock, sv_isAlive,
                 sv_buffer, sv_timers, sv_timeoutVar, sv_requests, sv_out,
                 sv_nextSweep, sv_nAudio, sv_pinged, sv_swept, sd, av>>

\* clearRecordings (page.tsx:219-223), the handler of the button rendered
\* while audioClips is not empty (273-279); revoking the object URLs changes
\* no state of the component
DetectorClearRecordings ==
  /\ vd_audioClips # <<>>
  /\ vd_audioClips' = <<>>
  /\ vd_latestClip' = <<>>
  /\ UNCHANGED <<now, initRun, isInitialized, error, streamRef, cobraRef,
                 audioContextRef, isListeningRef, pendingStart, pendingStop,
                 isRecordingRef, mediaRecorderRef, recState, stopTask, chunksRef,
                 delivered, recordingStartTimeRef, silenceTimers, silenceTimeoutRef,
                 maxTimer, recordingTimeoutRef, nRec, jobs, processingQueueRef,
                 transcription, isProcessing, released, voicedPastMin, debounced,
                 stopBy, stopAttempts, onstops, pg_initRun, pg_isInitialized, pg_error,
                 pg_streamRef, pg_cobraRef, pg_isListeningRef, pg_pendingStart,
                 pg_pendingStop, pg_isRecordingRef, pg_mediaRecorderRef, pg_recState,
                 pg_stopTask, pg_chunksRef, pg_recordingStartTimeRef, pg_silenceTimers,
                 pg_silenceTimeoutRef, pg_nRec, pg_transcription, pg_isProcessing,
                 pg_onstop, vd_initRun, vd_isInitialized, vd_error, vd_streamRef,
                 vd_cobraRef, vd_isListeningRef, vd_pendingStart, vd_pendingStop,
                 vd_isRecordingRef, vd_mediaRecorderRef, vd_recState, vd_stopTask,
                 vd_audioChunksRef, vd_recordingStartTimeRef, vd_silenceTimers,
                 vd_silenceTimeoutRef, vd_nRec, vd_startTime, ix_isListening,
                 ix_isRecording, ix_audioPackets, ix_memoListening, ix_pendingStart,
                 ix_vads, ix_streamRef, ix_mediaRecorderRef, ix_recState, ix_stopTask,
                 ix_nRec, ix_recListening, ix_audioChunksRef,
                 ix_currentRecordingStartTime, ix_silenceStartRef, ix_isLongPauseRef,
                 ix_pauseTimers, ix_pauseTimeoutRef, sv_clients, sv_sock, sv_isAlive,
                 sv_buffer, sv_timers, sv_timeoutVar, sv_requests, sv_out,
                 sv_nextSweep, sv_nAudio, sv_pinged, sv_swept, sd, av>>

\* half of MIN_RECORDING_DURATION, so that sessions end below, at and above it
TickClips == VD_MIN_RECORDING_DURATION \div 2
\* ================================================================== Part IV
\* Index of src/src/app/speech2tex.tsx (lines 6-201; page.tsx:843-1043 is the
\* same text): recording driven by the onVoiceStart / onVoiceStop events of
\* an energy-based voice activity detector.  Its variables carry the prefix
\* ix_; it shares the clock.

\* speech2tex.tsx:25 and 28 (milliseconds)
PAUSE_THRESHOLD == 2000
MIN_RECORDING_LENGTH == 500

TickIndex == MIN_RECORDING_LENGTH

\* the id of the VAD instance vadRef holds; 0 = null
IndexVadRef == Len(ix_vads)

\* A render in which isRecording has changed re-creates startListening
\* (speech2tex.tsx:53-83, its dependency list), which then holds the
\* startRecording of that render and, through it, that render's isListening
\* (129-148).
IndexRender(listening, recording) ==
  /\ ix_isListening' = listening
  /\ ix_isRecording' = recording
  /\ ix_memoListening' = IF recording # ix_isRecording THEN listening ELSE ix_memoListening

\* `if (!isRecording) startRecording()` of onVoiceStart (speech2tex.tsx:66-68)
\* with startRecording (108-148): isRecording is the value VAD v's callback
\* closed over when startListening was called.
IndexStartRecordingIfIdle(v) ==
  IF ix_streamRef /\ ~ix_vads[v].isRecording
    THEN /\ ix_nRec < MaxIndexRecs
         /\ ix_nRec' = ix_nRec + 1
         /\ ix_mediaRecorderRef' = ix_nRec + 1
         /\ ix_audioChunksRef' = <<>>
         /\ ix_currentRecordingStartTime' = DateNow
         /\ ix_recState' = [ix_recState EXCEPT ![ix_nRec + 1] = "recording"]
         /\ ix_recListening' = [ix_recListening EXCEPT ![ix_nRec + 1] = ix_vads[v].isListening]
         /\ IndexRender(ix_isListening, TRUE)
    ELSE UNCHANGED <<ix_nRec, ix_mediaRecorderRef, ix_audioChunksRef,
                     ix_currentRecordingStartTime, ix_recState, ix_recListening,
                     ix_isListening, ix_isRecording, ix_memoListening>>

\* onVoiceStart of VAD v (speech2tex.tsx:63-69): handleSpeech (45-51), then
\* startRecording unless the closure's isRecording is set
IndexOnVoiceStart(v) ==
  /\ v \in 1..Len(ix_vads) /\ ix_vads[v].alive
  /\ ix_pauseTimers' = IF ix_pauseTimeoutRef # Null
                         THEN ix_pauseTimers \ {ix_pauseTimeoutRef}
                         ELSE ix_pauseTimers
  /\ ix_silenceStartRef' = Null
  /\ ix_isLongPauseRef' = FALSE
  /\ IndexStartRecordingIfIdle(v)
  /\ UNCHANGED <<now, initRun, isInitialized, error, streamRef, cobraRef,
                 audioContextRef, isListeningRef, pendingStart, pendingStop,
                 isRecordingRef, mediaRecorderRef, recState, stopTask, chunksRef,
                 delivered, recordingStartTimeRef, silenceTimers, silenceTimeoutRef,
                 maxTimer, recordingTimeoutRef, nRec, jobs, processingQueueRef,
                 transcription, isProcessing, released, voicedPastMin, debounced,
                 stopBy, stopAttempts, onstops, pg_initRun, pg_isInitialized, pg_error,
                 pg_streamRef, pg_cobraRef, pg_isListeningRef, pg_pendingStart,
                 pg_pendingStop, pg_isRecordingRef, pg_mediaRecorderRef, pg_recState,
                 pg_stopTask, pg_chunksRef, pg_recordingStartTimeRef, pg_silenceTimers,
                 pg_silenceTimeoutRef, pg_nRec, pg_transcription, pg_isProcessing,
                 pg_onstop, vd_initRun, vd_isInitialized, vd_error, vd_streamRef,
                 vd_cobraRef, vd_isListeningRef, vd_pendingStart, vd_pendingStop,
                 vd_isRecordingRef, vd_mediaRecorderRef, vd_recState, vd_stopTask,
                 vd_audioChunksRef, vd_recordingStartTimeRef, vd_silenceTimers,
                 vd_silenceTimeoutRef, vd_nRec, vd_startTime, vd_audioClips,
                 vd_latestClip, ix_audioPackets, ix_pendingStart, ix_vads,
                 ix_streamRef, ix_stopTask, ix_pauseTimeoutRef, sv_clients, sv_sock,
                 sv_isAlive, sv_buffer, sv_timers, sv_timeoutVar, sv_requests, sv_out,
                 sv_nextSweep, sv_nAudio, sv_pinged, sv_swept, sd, av>>

\* onVoiceStop of VAD v (speech2tex.tsx:70-73): handlePause (30-43)
IndexOnVoiceStop(v) ==
  /\ v \in 1..Len(ix_vads) /\ ix_vads[v].alive
  /\ IF ix_silenceStartRef = Null
       THEN /\ ix_silenceStartRef' = DateNow
            /\ ix_pauseTimers' = ix_pauseTimers \cup {now + PAUSE_THRESHOLD}
            /\ ix_pauseTimeoutRef' = now + PAUSE_THRESHOLD
       ELSE UNCHANGED <<ix_silenceStartRef, ix_pauseTimers, ix_pauseTimeoutRef>>
  /\ UNCHANGED <<now, initRun, isInitialized, error, streamRef, cobraRef,
                 audioContextRef, isListeningRef, pendingStart, pendingStop,
                 isRecordingRef, mediaRecorderRef, recState, stopTask, chunksRef,
                 delivered, recordingStartTimeRef, silenceTimers, silenceTimeoutRef,
                 maxTimer, recordingTimeoutRef, nRec, jobs, processingQueueRef,
                 transcription, isProcessing, released, voicedPastMin, debounced,
                 stopBy, stopAttempts, onstops, pg_initRun, pg_isInitialized, pg_error,
                 pg_streamRef, pg_cobraRef, pg_isListeningRef, pg_pendingStart,
                 pg_pendingStop, pg_isRecordingRef, pg_mediaRecorderRef, pg_recState,
                 pg_stopTask, pg_chunksRef, pg_recordingStartTimeRef, pg_silenceTimers,
                 pg_silenceTimeoutRef, pg_nRec, pg_transcription, pg_isProcessing,
                 pg_onstop, vd_initRun, vd_isInitialized, vd_error, vd_streamRef,
                 vd_cobraRef, vd_isListeningRef, vd_pendingStart, vd_pendingStop,
                 vd_isRecordingRef, vd_mediaRecorderRef, vd_recState, vd_stopTask,
                 vd_audioChunksRef, vd_recordingStartTimeRef, vd_silenceTimers,
                 vd_silenceTimeoutRef, vd_nRec, vd_startTime, vd_audioClips,
                 vd_latestClip, ix_isListening, ix_isRecording, ix_audioPackets,
                 ix_memoListening, ix_pendingStart, ix_vads, ix_streamRef,
                 ix_mediaRecorderRef, ix_recState, ix_stopTask, ix_nRec,
                 ix_recListening, ix_audioChunksRef, ix_currentRecordingStartTime,
                 ix_isLongPauseRef, sv_clients, sv_sock, sv_isAlive, sv_buffer,
                 sv_timers, sv_timeoutVar, sv_requests, sv_out, sv_nextSweep,
                 sv_nAudio, sv_pinged, sv_swept, sd, av>>

\* the pause timer's callback (speech2tex.tsx:35-41) with stopRecording
\* (150-158)
IndexPauseTimeout(d) ==
  LET m == ix_mediaRecorderRef
      pauseDuration == DateNow - (IF ix_silenceStartRef # Null THEN ix_silenceStartRef ELSE 0)
      long == pauseDuration >= PAUSE_THRESHOLD
      rec == long /\ m # 0 /\ ix_recState[m] = "recording"
  IN /\ d \in ix_pauseTimers
     /\ now >= d
     /\ ix_pauseTimers' = ix_pauseTimers \ {d}
     /\ ix_isLongPauseRef' = (ix_isLongPauseRef \/ long)
     /\ ix_recState' = IF rec THEN [ix_recState EXCEPT ![m] = "inactive"] ELSE ix_recState
     /\ ix_stopTask' = IF rec THEN [ix_stopTask EXCEPT ![m] = @ + 1] ELSE ix_stopTask
     /\ IF rec THEN IndexRender(ix_isListening, FALSE)
               ELSE UNCHANGED <<ix_isListening, ix_isRecording, ix_memoListening>>
     /\ UNCHANGED <<now, initRun, isInitialized, error, streamRef, cobraRef,
                    audioContextRef, isListeningRef, pendingStart, pendingStop,
                    isRecordingRef, mediaRecorderRef, recState, stopTask, chunksRef,
                    delivered, recordingStartTimeRef, silenceTimers, silenceTimeoutRef,
                    maxTimer, recordingTimeoutRef, nRec, jobs, processingQueueRef,
                    transcription, isProcessing, released, voicedPastMin, debounced,
                    stopBy, stopAttempts, onstops, pg_initRun, pg_isInitialized,
                    pg_error, pg_streamRef, pg_cobraRef, pg_isListeningRef,
                    pg_pendingStart, pg_pendingStop, pg_isRecordingRef,
                    pg_mediaRecorderRef, pg_recState, pg_stopTask, pg_chunksRef,
                    pg_recordingStartTimeRef, pg_silenceTimers, pg_silenceTimeoutRef,
                    pg_nRec, pg_transcription, pg_isProcessing, pg_onstop, vd_initRun,
                    vd_isInitialized, vd_error, vd_streamRef, vd_cobraRef,
                    vd_isListeningRef, vd_pendingStart, vd_pendingStop,
                    vd_isRecordingRef, vd_mediaRecorderRef, vd_recState, vd_stopTask,
                    vd_audioChunksRef, vd_recordingStartTimeRef, vd_silenceTimers,
                    vd_silenceTimeoutRef, vd_nRec, vd_startTime, vd_audioClips,
                    vd_latestClip, ix_audioPackets, ix_pendingStart, ix_vads,
                    ix_streamRef, ix_mediaRecorderRef, ix_nRec, ix_recListening,
                    ix_audioChunksRef, ix_currentRecordingStartTime,
                    ix_silenceStartRef, ix_pauseTimeoutRef, sv_clients, sv_sock,
                    sv_isAlive, sv_buffer, sv_timers, sv_timeoutVar, sv_requests,
                    sv_out, sv_nextSweep, sv_nAudio, sv_pinged, sv_swept, sd, av>>

\* mediaRecorder.ondataavailable for a timeslice chunk (speech2tex.tsx:116-120);
\* every recorder of the component pushes into the one audioChunksRef
IndexOnDataAvailable(r, size) ==
  /\ ix_recState[r] = "recording"
  /\ Len(ix_audioChunksRef) < MaxChunks
  /\ ix_audioChunksRef' = IF size > 0 THEN Append(ix_audioChunksRef, r)
                                      ELSE ix_audioChunksRef
  /\ UNCHANGED <<now, initRun, isInitialized, error, streamRef, cobraRef,
                 audioContextRef, isListeningRef, pendingStart, pendingStop,
                 isRecordingRef, mediaRecorderRef, recState, stopTask, chunksRef,
                 delivered, recordingStartTimeRef, silenceTimers, silenceTimeoutRef,
                 maxTimer, recordingTimeoutRef, nRec, jobs, processingQueueRef,
                 transcription, isProcessing, released, voicedPastMin, debounced,
                 stopBy, stopAttempts, onstops, pg_initRun, pg_isInitialized, pg_error,
                 pg_streamRef, pg_cobraRef, pg_isListeningRef, pg_pendingStart,
                 pg_pendingStop, pg_isRecordingRef, pg_mediaRecorderRef, pg_recState,
                 pg_stopTask, pg_chunksRef, pg_recordingStartTimeRef, pg_silenceTimers,
                 pg_silenceTimeoutRef, pg_nRec, pg_transcription, pg_isProcessing,
                 pg_onstop, vd_initRun, vd_isInitialized, vd_error, vd_streamRef,
                 vd_cobraRef, vd_isListeningRef, vd_pendingStart, vd_pendingStop,
                 vd_isRecordingRef, vd_mediaRecorderRef, vd_recState, vd_stopTask,
                 vd_audioChunksRef, vd_recordingStartTimeRef, vd_silenceTimers,
                 vd_silenceTimeoutRef, vd_nRec, vd_startTime, vd_audioClips,
                 vd_latestClip, ix_isListening, ix_isRecording, ix_audioPackets,
                 ix_memoListening, ix_pendingStart, ix_vads, ix_streamRef,
                 ix_mediaRecorderRef, ix_recState, ix_stopTask, ix_nRec,
                 ix_recListening, ix_currentRecordingStartTime, ix_silenceStartRef,
                 ix_isLongPauseRef, ix_pauseTimers, ix_pauseTimeoutRef, sv_clients,
                 sv_sock, sv_isAlive, sv_buffer, sv_timers, sv_timeoutVar, sv_requests,
                 sv_out, sv_nextSweep, sv_nAudio, sv_pinged, sv_swept, sd, av>>

\* stopListening (speech2tex.tsx:85-100).  recordersEnd: whether the browser
\* stops the recording MediaRecorders whose tracks have all ended (each then
\* queues its dataavailable+stop task).
IndexStopListeningBody(recordersEnd) ==
  /\ ix_recState' = [r \in IndexRecs |->
                       IF recordersEnd /\ ix_streamRef /\ ix_recState[r] = "recording"
                         THEN "inactive" ELSE ix_recState[r]]
  /\ ix_stopTask' = [r \in IndexRecs |->
                       IF recordersEnd /\ ix_streamRef /\ ix_recState[r] = "recording"
                         THEN ix_stopTask[r] + 1 ELSE ix_stopTask[r]]
  /\ ix_vads' = IF IndexVadRef # 0
                  THEN [ix_vads EXCEPT ![IndexVadRef].alive = FALSE]
                  ELSE ix_vads
  /\ ix_pauseTimers' = IF ix_pauseTimeoutRef # Null
                         THEN ix_pauseTimers \ {ix_pauseTimeoutRef}
                         ELSE ix_pauseTimers
  /\ IndexRender(FALSE, FALSE)

\* The task MediaRecorder.stop() queued for recorder r: dataavailable with the
\* rest of the data (speech2tex.tsx:116-120), then onstop (122-143) with
\* saveRecording (102-108).  A saved packet changes audioPackets, and the
\* cleanup of the effect that depends on it (160-165) calls stopListening
\* when the component re-renders.
IndexRecorderStopTask(r, size, recordersEnd) ==
  LET chunks == IF size > 0 THEN Append(ix_audioChunksRef, r) ELSE ix_audioChunksRef
      recordingDuration == DateNow - ix_currentRecordingStartTime
      saved == recordingDuration >= MIN_RECORDING_LENGTH /\ Len(chunks) > 0
      again == ix_recListening[r] /\ ~ix_isLongPauseRef
  IN /\ ix_stopTask[r] > 0
     /\ again => ix_nRec < MaxIndexRecs
     /\ ix_audioPackets' = IF saved THEN Append(ix_audioPackets, chunks) ELSE ix_audioPackets
     /\ ix_nRec' = IF again THEN ix_nRec + 1 ELSE ix_nRec
     /\ ix_mediaRecorderRef' = IF again THEN ix_nRec + 1 ELSE ix_mediaRecorderRef
     /\ ix_audioChunksRef' = IF again THEN <<>> ELSE chunks
     /\ ix_currentRecordingStartTime' = IF again THEN DateNow ELSE ix_currentRecordingStartTime
     /\ ix_recListening' = IF again THEN [ix_recListening EXCEPT ![ix_nRec + 1] = TRUE]
                                    ELSE ix_recListening
     /\ IF saved
          THEN /\ ix_recState' = [q \in IndexRecs |->
                    IF again /\ q = ix_nRec + 1
                      THEN (IF recordersEnd THEN "inactive" ELSE "recording")
                      ELSE IF recordersEnd /\ ix_streamRef /\ ix_recState[q] = "recording"
                        THEN "inactive" ELSE ix_recState[q]]
               /\ ix_stopTask' = [q \in IndexRecs |->
                    IF q = r THEN ix_stopTask[q] - 1
                    ELSE IF again /\ q = ix_nRec + 1
                      THEN (IF recordersEnd THEN 1 ELSE 0)
                      ELSE IF recordersEnd /\ ix_streamRef /\ ix_recState[q] = "recording"
                        THEN ix_stopTask[q] + 1 ELSE ix_stopTask[q]]
               /\ ix_vads' = IF IndexVadRef # 0
                               THEN [ix_vads EXCEPT ![IndexVadRef].alive = FALSE]
                               ELSE ix_vads
               /\ ix_pauseTimers' = IF ix_pauseTimeoutRef # Null
                                      THEN ix_pauseTimers \ {ix_pauseTimeoutRef}
                                      ELSE ix_pauseTimers
               /\ IndexRender(FALSE, FALSE)
          ELSE /\ ix_recState' = IF again
                                   THEN [ix_recState EXCEPT ![ix_nRec + 1] = "recording"]
                                   ELSE ix_recState
               /\ ix_stopTask' = [ix_stopTask EXCEPT ![r] = @ - 1]
               /\ UNCHANGED <<ix_vads, ix_pauseTimers, ix_isListening, ix_isRecording,
                              ix_memoListening>>
     /\ UNCHANGED <<now, initRun, isInitialized, error, streamRef, cobraRef,
                    audioContextRef, isListeningRef, pendingStart, pendingStop,
                    isRecordingRef, mediaRecorderRef, recState, stopTask, chunksRef,
                    delivered, recordingStartTimeRef, silenceTimers, silenceTimeoutRef,
                    maxTimer, recordingTimeoutRef, nRec, jobs, processingQueueRef,
                    transcription, isProcessing, released, voicedPastMin, debounced,
                    stopBy, stopAttempts, onstops, pg_initRun, pg_isInitialized,
                    pg_error, pg_streamRef, pg_cobraRef, pg_isListeningRef,
                    pg_pendingStart, pg_pendingStop, pg_isRecordingRef,
                    pg_mediaRecorderRef, pg_recState, pg_stopTask, pg_chunksRef,
                    pg_recordingStartTimeRef, pg_silenceTimers, pg_silenceTimeoutRef,
                    pg_nRec, pg_transcription, pg_isProcessing, pg_onstop, vd_initRun,
                    vd_isInitialized, vd_error, vd_streamRef, vd_cobraRef,
                    vd_isListeningRef, vd_pendingStart, vd_pendingStop,
                    vd_isRecordingRef, vd_mediaRecorderRef, vd_recState, vd_stopTask,
                    vd_audioChunksRef, vd_recordingStartTimeRef, vd_silenceTimers,
                    vd_silenceTimeoutRef, vd_nRec, vd_startTime, vd_audioClips,
                    vd_latestClip, ix_pendingStart, ix_streamRef, ix_silenceStartRef,
                    ix_isLongPauseRef, ix_pauseTimeoutRef, sv_clients, sv_sock,
                    sv_isAlive, sv_buffer, sv_timers, sv_timeoutVar, sv_requests,
                    sv_out, sv_nextSweep, sv_nAudio, sv_pinged, sv_swept, sd, av>>

\* startListening up to its await (speech2tex.tsx:53-55): the call keeps the
\* isRecording of its render and the startRecording it holds.  The button
\* offers it while isListening is false (171).
IndexStartListeningCall ==
  /\ ~ix_isListening
  /\ Len(ix_pendingStart) + Len(ix_vads) < MaxVads
  /\ ix_pendingStart' = Append(ix_pendingStart,
                               [alive |-> TRUE, isRecording |-> ix_isRecording,
                                isListening |-> ix_memoListening])
  /\ UNCHANGED <<now, initRun, isInitialized, error, streamRef, cobraRef,
                 audioContextRef, isListeningRef, pendingStart, pendingStop,
                 isRecordingRef, mediaRecorderRef, recState, stopTask, chunksRef,
                 delivered, recordingStartTimeRef, silenceTimers, silenceTimeoutRef,
                 maxTimer, recordingTimeoutRef, nRec, jobs, processingQueueRef,
                 transcription, isProcessing, released, voicedPastMin, debounced,
                 stopBy, stopAttempts, onstops, pg_initRun, pg_isInitialized, pg_error,
                 pg_streamRef, pg_cobraRef, pg_isListeningRef, pg_pendingStart,
                 pg_pendingStop, pg_isRecordingRef, pg_mediaRecorderRef, pg_recState,
                 pg_stopTask, pg_chunksRef, pg_recordingStartTimeRef, pg_silenceTimers,
                 pg_silenceTimeoutRef, pg_nRec, pg_transcription, pg_isProcessing,
                 pg_onstop, vd_initRun, vd_isInitialized, vd_error, vd_streamRef,
                 vd_cobraRef, vd_isListeningRef, vd_pendingStart, vd_pendingStop,
                 vd_isRecordingRef, vd_mediaRecorderRef, vd_recState, vd_stopTask,
                 vd_audioChunksRef, vd_recordingStartTimeRef, vd_silenceTimers,
                 vd_silenceTimeoutRef, vd_nRec, vd_startTime, vd_audioClips,
                 vd_latestClip, ix_isListening, ix_isRecording, ix_audioPackets,
                 ix_memoListening, ix_vads, ix_streamRef, ix_mediaRecorderRef,
                 ix_recState, ix_stopTask, ix_nRec, ix_recListening, ix_audioChunksRef,
                 ix_currentRecordingStartTime, ix_silenceStartRef, ix_isLongPauseRef,
                 ix_pauseTimers, ix_pauseTimeoutRef, sv_clients, sv_sock, sv_isAlive,
                 sv_buffer, sv_timers, sv_timeoutVar, sv_requests, sv_out,
                 sv_nextSweep, sv_nAudio, sv_pinged, sv_swept, sd, av>>

\* startListening after getUserMedia settled (speech2tex.tsx:55-82)
IndexStartListeningResume(granted) ==
  /\ ix_pendingStart # <<>>
  /\ ix_pendingStart' = Tail(ix_pendingStart)
  /\ IF granted
       THEN /\ ix_streamRef' = TRUE
            /\ ix_vads' = Append(ix_vads, Head(ix_pendingStart))
            /\ IndexRender(TRUE, ix_isRecording)
       ELSE UNCHANGED <<ix_streamRef, ix_vads, ix_isListening, ix_isRecording,
                        ix_memoListening>>
  /\ UNCHANGED <<now, initRun, isInitialized, error, streamRef, cobraRef,
                 audioContextRef, isListeningRef, pendingStart, pendingStop,
                 isRecordingRef, mediaRecorderRef, recState, stopTask, chunksRef,
                 delivered, recordingStartTimeRef, silenceTimers, silenceTimeoutRef,
                 maxTimer, recordingTimeoutRef, nRec, jobs, processingQueueRef,
                 transcription, isProcessing, released, voicedPastMin, debounced,
                 stopBy, stopAttempts, onstops, pg_initRun, pg_isInitialized, pg_error,
                 pg_streamRef, pg_cobraRef, pg_isListeningRef, pg_pendingStart,
                 pg_pendingStop, pg_isRecordingRef, pg_mediaRecorderRef, pg_recState,
                 pg_stopTask, pg_chunksRef, pg_recordingStartTimeRef, pg_silenceTimers,
                 pg_silenceTimeoutRef, pg_nRec, pg_transcription, pg_isProcessing,
                 pg_onstop, vd_initRun, vd_isInitialized, vd_error, vd_streamRef,
                 vd_cobraRef, vd_isListeningRef, vd_pendingStart, vd_pendingStop,
                 vd_isRecordingRef, vd_mediaRecorderRef, vd_recState, vd_stopTask,
                 vd_audioChunksRef, vd_recordingStartTimeRef, vd_silenceTimers,
                 vd_silenceTimeoutRef, vd_nRec, vd_startTime, vd_audioClips,
                 vd_latestClip, ix_audioPackets, ix_mediaRecorderRef, ix_recState,
                 ix_stopTask, ix_nRec, ix_recListening, ix_audioChunksRef,
                 ix_currentRecordingStartTime, ix_silenceStartRef, ix_isLongPauseRef,
                 ix_pauseTimers, ix_pauseTimeoutRef, sv_clients, sv_sock, sv_isAlive,
                 sv_buffer, sv_timers, sv_timeoutVar, sv_requests, sv_out,
                 sv_nextSweep, sv_nAudio, sv_pinged, sv_swept, sd, av>>

\* the Stop Listening button (speech2tex.tsx:171)
IndexStopListening(recordersEnd) ==
  /\ ix_isListening
  /\ IndexStopListeningBody(recordersEnd)
  /\ UNCHANGED <<now, initRun, isInitialized, error, streamRef, cobraRef,
                 audioContextRef, isListeningRef, pendingStart, pendingStop,
                 isRecordingRef, mediaRecorderRef, recState, stopTask, chunksRef,
                 delivered, recordingStartTimeRef, silenceTimers, silenceTimeoutRef,
                 maxTimer, recordingTimeoutRef, nRec, jobs, processingQueueRef,
                 transcription, isProcessing, released, voicedPastMin, debounced,
                 stopBy, stopAttempts, onstops, pg_initRun, pg_isInitialized, pg_error,
                 pg_streamRef, pg_cobraRef, pg_isListeningRef, pg_pendingStart,
                 pg_pendingStop, pg_isRecordingRef, pg_mediaRecorderRef, pg_recState,
                 pg_stopTask, pg_chunksRef, pg_recordingStartTimeRef, pg_silenceTimers,
                 pg_silenceTimeoutRef, pg_nRec, pg_transcription, pg_isProcessing,
                 pg_onstop, vd_initRun, vd_isInitialized, vd_error, vd_streamRef,
                 vd_cobraRef, vd_isListeningRef, vd_pendingStart, vd_pendingStop,
                 vd_isRecordingRef, vd_mediaRecorderRef, vd_recState, vd_stopTask,
                 vd_audioChunksRef, vd_recordingStartTimeRef, vd_silenceTimers,
                 vd_silenceTimeoutRef, vd_nRec, vd_startTime, vd_audioClips,
                 vd_latestClip, ix_audioPackets, ix_pendingStart, ix_streamRef,
                 ix_mediaRecorderRef, ix_nRec, ix_recListening, ix_audioChunksRef,
                 ix_currentRecordingStartTime, ix_silenceStartRef, ix_isLongPauseRef,
                 ix_pauseTimeoutRef, sv_clients, sv_sock, sv_isAlive, sv_buffer,
                 sv_timers, sv_timeoutVar, sv_requests, sv_out, sv_nextSweep,
                 sv_nAudio, sv_pinged, sv_swept, sd, av>>

\* =================================================================== Part V
\* The relay server of src/src/app/server.js.  Its variables carry the prefix
\* sv_; it shares the clock.  Of the messages it sends, 'transcript' and
\* 'error' are recorded; 'connected', 'pong' and 'ping' change no state of
\* the server.

TickRelay == AUDIO_CHUNK_TIMEOUT \div 2
TickSweep == PING_INTERVAL \div 2
\* lengths of the decoded audio chunks
ChunkLens == {MAX_BUFFER_SIZE \div 2, MAX_BUFFER_SIZE + 1}

RECURSIVE TotalSize(_)
\* currentAudioBuffer.reduce((acc, chunk) => acc + chunk.length, 0) (server.js:114)
TotalSize(buffer) ==
  IF buffer = <<>> THEN 0 ELSE Head(buffer).len + TotalSize(Tail(buffer))

\* the ids of the chunks of a buffer, in order
ChunkIds(buffer) == [i \in 1..Len(buffer) |-> buffer[i].id]

ErrorMessage == [type |-> "error", data |-> "Failed to process message", req |-> 0]
ErrorAudio(k) == [type |-> "error", data |-> "Failed to process audio", req |-> k]
Transcript(k) == [type |-> "transcript", data |-> "final", req |-> k]

\* wss.on('connection') (server.js:81-100)
ServerConnection(c) ==
  /\ c \in Conns /\ sv_sock[c] = "none"
  /\ \A b \in Conns : b < c => sv_sock[b] # "none"
  /\ sv_sock' = [sv_sock EXCEPT ![c] = "open"]
  /\ sv_clients' = sv_clients \cup {c}
  /\ sv_isAlive' = [sv_isAlive EXCEPT ![c] = TRUE]
  /\ sv_buffer' = [sv_buffer EXCEPT ![c] = <<>>]
  /\ sv_timeoutVar' = [sv_timeoutVar EXCEPT ![c] = Null]
  /\ UNCHANGED <<now, initRun, isInitialized, error, streamRef, cobraRef,
                 audioContextRef, isListeningRef, pendingStart, pendingStop,
                 isRecordingRef, mediaRecorderRef, recState, stopTask, chunksRef,
                 delivered, recordingStartTimeRef, silenceTimers, silenceTimeoutRef,
                 maxTimer, recordingTimeoutRef, nRec, jobs, processingQueueRef,
                 transcription, isProcessing, released, voicedPastMin, debounced,
                 stopBy, stopAttempts, onstops, pg_initRun, pg_isInitialized, pg_error,
                 pg_streamRef, pg_cobraRef, pg_isListeningRef, pg_pendingStart,
                 pg_pendingStop, pg_isRecordingRef, pg_mediaRecorderRef, pg_recState,
                 pg_stopTask, pg_chunksRef, pg_recordingStartTimeRef, pg_silenceTimers,
                 pg_silenceTimeoutRef, pg_nRec, pg_transcription, pg_isProcessing,
                 pg_onstop, vd_initRun, vd_isInitialized, vd_error, vd_streamRef,
                 vd_cobraRef, vd_isListeningRef, vd_pendingStart, vd_pendingStop,
                 vd_isRecordingRef, vd_mediaRecorderRef, vd_recState, vd_stopTask,
                 vd_audioChunksRef, vd_recordingStartTimeRef, vd_silenceTimers,
                 vd_silenceTimeoutRef, vd_nRec, vd_startTime, vd_audioClips,
                 vd_latestClip, ix_isListening, ix_isRecording, ix_audioPackets,
                 ix_memoListening, ix_pendingStart, ix_vads, ix_streamRef,
                 ix_mediaRecorderRef, ix_recState, ix_stopTask, ix_nRec,
                 ix_recListening, ix_audioChunksRef, ix_currentRecordingStartTime,
                 ix_silenceStartRef, ix_isLongPauseRef, ix_pauseTimers,
                 ix_pauseTimeoutRef, sv_timers, sv_requests, sv_out, sv_nextSweep,
                 sv_nAudio, sv_pinged, sv_swept, sd, av>>

\* faulty variant: the pending timer is not cleared before the new one is set
ServerAudioMessage_KeepsTimer(c, len) ==
  LET buffer == Append(sv_buffer[c], [id |-> sv_nAudio + 1, len |-> len, at |-> now])
  IN /\ sv_sock[c] = "open"
     /\ sv_nAudio < MaxAudio
     /\ sv_nAudio' = sv_nAudio + 1
     /\ sv_buffer' = [sv_buffer EXCEPT ![c] = buffer]
     /\ IF TotalSize(buffer) > MAX_BUFFER_SIZE
          THEN /\ sv_out' = [sv_out EXCEPT ![c] = Append(@, ErrorMessage)]
               /\ UNCHANGED <<sv_timers, sv_timeoutVar>>
          ELSE /\ sv_timers' = [sv_timers EXCEPT ![c] = @ \cup {now + AUDIO_CHUNK_TIMEOUT}]
               /\ sv_timeoutVar' = [sv_timeoutVar EXCEPT ![c] = now + AUDIO_CHUNK_TIMEOUT]
               /\ UNCHANGED sv_out
     /\ UNCHANGED <<now, initRun, isInitialized, error, streamRef, cobraRef,
                    audioContextRef, isListeningRef, pendingStart, pendingStop,
                    isRecordingRef, mediaRecorderRef, recState, stopTask, chunksRef,
                    delivered, recordingStartTimeRef, silenceTimers, silenceTimeoutRef,
                    maxTimer, recordingTimeoutRef, nRec, jobs, processingQueueRef,
                    transcription, isProcessing, released, voicedPastMin, debounced,
                    stopBy, stopAttempts, onstops, pg_initRun, pg_isInitialized,
                    pg_error, pg_streamRef, pg_cobraRef, pg_isListeningRef,
                    pg_pendingStart, pg_pendingStop, pg_isRecordingRef,
                    pg_mediaRecorderRef, pg_recState, pg_stopTask, pg_chunksRef,
                    pg_recordingStartTimeRef, pg_silenceTimers, pg_silenceTimeoutRef,
                    pg_nRec, pg_transcription, pg_isProcessing, pg_onstop, vd_initRun,
                    vd_isInitialized, vd_error, vd_streamRef, vd_cobraRef,
                    vd_isListeningRef, vd_pendingStart, vd_pendingStop,
                    vd_isRecordingRef, vd_mediaRecorderRef, vd_recState, vd_stopTask,
                    vd_audioChunksRef, vd_recordingStartTimeRef, vd_silenceTimers,
                    vd_silenceTimeoutRef, vd_nRec, vd_startTime, vd_audioClips,
                    vd_latestClip, ix_isListening, ix_isRecording, ix_audioPackets,
                    ix_memoListening, ix_pendingStart, ix_vads, ix_streamRef,
                    ix_mediaRecorderRef, ix_recState, ix_stopTask, ix_nRec,
                    ix_recListening, ix_audioChunksRef, ix_currentRecordingStartTime,
                    ix_silenceStartRef, ix_isLongPauseRef, ix_pauseTimers,
                    ix_pauseTimeoutRef, sv_clients, sv_sock, sv_isAlive, sv_requests,
                    sv_nextSweep, sv_pinged, sv_swept, sd, av>>

\* ws.on('message') for {type: 'audio'} (server.js:103-123, 148-149, 156-162):
\* the chunk is pushed before the size is checked, and the throw leaves the
\* buffer and the pending timer as they are.  A chunk is recorded with its
\* length and the time it arrived.
ServerAudioMessage(c, len) ==
  LET buffer == Append(sv_buffer[c], [id |-> sv_nAudio + 1, len |-> len, at |-> now])
  IN /\ sv_sock[c] = "open"
     /\ sv_nAudio < MaxAudio
     /\ sv_nAudio' = sv_nAudio + 1
     /\ sv_buffer' = [sv_buffer EXCEPT ![c] = buffer]
     /\ IF TotalSize(buffer) > MAX_BUFFER_SIZE
          THEN /\ sv_out' = [sv_out EXCEPT ![c] = Append(@, ErrorMessage)]
               /\ UNCHANGED <<sv_timers, sv_timeoutVar>>
          ELSE /\ sv_timers' = [sv_timers EXCEPT ![c] =
                                  (IF sv_timeoutVar[c] # Null
                                     THEN @ \ {sv_timeoutVar[c]} ELSE @)
                                    \cup {now + AUDIO_CHUNK_TIMEOUT}]
               /\ sv_timeoutVar' = [sv_timeoutVar EXCEPT ![c] = now + AUDIO_CHUNK_TIMEOUT]
               /\ UNCHANGED sv_out
     /\ UNCHANGED <<now, initRun, isInitialized, error, streamRef, cobraRef,
                    audioContextRef, isListeningRef, pendingStart, pendingStop,
                    isRecordingRef, mediaRecorderRef, recState, stopTask, chunksRef,
                    delivered, recordingStartTimeRef, silenceTimers, silenceTimeoutRef,
                    maxTimer, recordingTimeoutRef, nRec, jobs, processingQueueRef,
                    transcription, isProcessing, released, voicedPastMin, debounced,
                    stopBy, stopAttempts, onstops, pg_initRun, pg_isInitialized,
                    pg_error, pg_streamRef, pg_cobraRef, pg_isListeningRef,
                    pg_pendingStart, pg_pendingStop, pg_isRecordingRef,
                    pg_mediaRecorderRef, pg_recState, pg_stopTask, pg_chunksRef,
                    pg_recordingStartTimeRef, pg_silenceTimers, pg_silenceTimeoutRef,
                    pg_nRec, pg_transcription, pg_isProcessing, pg_onstop, vd_initRun,
                    vd_isInitialized, vd_error, vd_streamRef, vd_cobraRef,
                    vd_isListeningRef, vd_pendingStart, vd_pendingStop,
                    vd_isRecordingRef, vd_mediaRecorderRef, vd_recState, vd_stopTask,
                    vd_audioChunksRef, vd_recordingStartTimeRef, vd_silenceTimers,
                    vd_silenceTimeoutRef, vd_nRec, vd_startTime, vd_audioClips,
                    vd_latestClip, ix_isListening, ix_isRecording, ix_audioPackets,
                    ix_memoListening, ix_pendingStart, ix_vads, ix_streamRef,
                    ix_mediaRecorderRef, ix_recState, ix_stopTask, ix_nRec,
                    ix_recListening, ix_audioChunksRef, ix_currentRecordingStartTime,
                    ix_silenceStartRef, ix_isLongPauseRef, ix_pauseTimers,
                    ix_pauseTimeoutRef, sv_clients, sv_sock, sv_isAlive, sv_requests,
                    sv_nextSweep, sv_pinged, sv_swept, sd, av>>

\* faulty variant: the 'ping' message is answered but isAlive is left alone
ServerPingMessage_NoMark(c) ==
  /\ sv_sock[c] = "open"
  /\ sv_pinged' = [sv_pinged EXCEPT ![c] = TRUE]
  /\ UNCHANGED <<now, initRun, isInitialized, error, streamRef, cobraRef,
                 audioContextRef, isListeningRef, pendingStart, pendingStop,
                 isRecordingRef, mediaRecorderRef, recState, stopTask, chunksRef,
                 delivered, recordingStartTimeRef, silenceTimers, silenceTimeoutRef,
                 maxTimer, recordingTimeoutRef, nRec, jobs, processingQueueRef,
                 transcription, isProcessing, released, voicedPastMin, debounced,
                 stopBy, stopAttempts, onstops, pg_initRun, pg_isInitialized, pg_error,
                 pg_streamRef, pg_cobraRef, pg_isListeningRef, pg_pendingStart,
                 pg_pendingStop, pg_isRecordingRef, pg_mediaRecorderRef, pg_recState,
                 pg_stopTask, pg_chunksRef, pg_recordingStartTimeRef, pg_silenceTimers,
                 pg_silenceTimeoutRef, pg_nRec, pg_transcription, pg_isProcessing,
                 pg_onstop, vd_initRun, vd_isInitialized, vd_error, vd_streamRef,
                 vd_cobraRef, vd_isListeningRef, vd_pendingStart, vd_pendingStop,
                 vd_isRecordingRef, vd_mediaRecorderRef, vd_recState, vd_stopTask,
                 vd_audioChunksRef, vd_recordingStartTimeRef, vd_silenceTimers,
                 vd_silenceTimeoutRef, vd_nRec, vd_startTime, vd_audioClips,
                 vd_latestClip, ix_isListening, ix_isRecording, ix_audioPackets,
                 ix_memoListening, ix_pendingStart, ix_vads, ix_streamRef,
                 ix_mediaRecorderRef, ix_recState, ix_stopTask, ix_nRec,
                 ix_recListening, ix_audioChunksRef, ix_currentRecordingStartTime,
                 ix_silenceStartRef, ix_isLongPauseRef, ix_pauseTimers,
                 ix_pauseTimeoutRef, sv_clients, sv_sock, sv_isAlive, sv_buffer,
                 sv_timers, sv_timeoutVar, sv_requests, sv_out, sv_nextSweep,
                 sv_nAudio, sv_swept, sd, av>>

\* ws.on('message') for {type: 'ping'} (server.js:151-154)
ServerPingMessage(c) ==
  /\ sv_sock[c] = "open"
  /\ sv_isAlive' = [sv_isAlive EXCEPT ![c] = TRUE]
  /\ sv_pinged' = [sv_pinged EXCEPT ![c] = TRUE]
  /\ UNCHANGED <<now, initRun, isInitialized, error, streamRef, cobraRef,
                 audioContextRef, isListeningRef, pendingStart, pendingStop,
                 isRecordingRef, mediaRecorderRef, recState, stopTask, chunksRef,
                 delivered, recordingStartTimeRef, silenceTimers, silenceTimeoutRef,
                 maxTimer, recordingTimeoutRef, nRec, jobs, processingQueueRef,
                 transcription, isProcessing, released, voicedPastMin, debounced,
                 stopBy, stopAttempts, onstops, pg_initRun, pg_isInitialized, pg_error,
                 pg_streamRef, pg_cobraRef, pg_isListeningRef, pg_pendingStart,
                 pg_pendingStop, pg_isRecordingRef, pg_mediaRecorderRef, pg_recState,
                 pg_stopTask, pg_chunksRef, pg_recordingStartTimeRef, pg_silenceTimers,
                 pg_silenceTimeoutRef, pg_nRec, pg_transcription, pg_isProcessing,
                 pg_onstop, vd_initRun, vd_isInitialized, vd_error, vd_streamRef,
                 vd_cobraRef, vd_isListeningRef, vd_pendingStart, vd_pendingStop,
                 vd_isRecordingRef, vd_mediaRecorderRef, vd_recState, vd_stopTask,
                 vd_audioChunksRef, vd_recordingStartTimeRef, vd_silenceTimers,
                 vd_silenceTimeoutRef, vd_nRec, vd_startTime, vd_audioClips,
                 vd_latestClip, ix_isListening, ix_isRecording, ix_audioPackets,
                 ix_memoListening, ix_pendingStart, ix_vads, ix_streamRef,
                 ix_mediaRecorderRef, ix_recState, ix_stopTask, ix_nRec,
                 ix_recListening, ix_audioChunksRef, ix_currentRecordingStartTime,
                 ix_silenceStartRef, ix_isLongPauseRef, ix_pauseTimers,
                 ix_pauseTimeoutRef, sv_clients, sv_sock, sv_buffer, sv_timers,
                 sv_timeoutVar, sv_requests, sv_out, sv_nextSweep, sv_nAudio, sv_swept,
                 sd, av>>

\* ws.on('message') for a message JSON.parse or decodeBase64Audio rejects
\* (server.js:105, 110, 156-162)
ServerBadMessage(c) ==
  /\ sv_sock[c] = "open"
  /\ Len(sv_out[c]) < MaxBad
  /\ sv_out' = [sv_out EXCEPT ![c] = Append(@, ErrorMessage)]
  /\ UNCHANGED <<now, initRun, isInitialized, error, streamRef, cobraRef,
                 audioContextRef, isListeningRef, pendingStart, pendingStop,
                 isRecordingRef, mediaRecorderRef, recState, stopTask, chunksRef,
                 delivered, recordingStartTimeRef, silenceTimers, silenceTimeoutRef,
                 maxTimer, recordingTimeoutRef, nRec, jobs, processingQueueRef,
                 transcription, isProcessing, released, voicedPastMin, debounced,
                 stopBy, stopAttempts, onstops, pg_initRun, pg_isInitialized, pg_error,
                 pg_streamRef, pg_cobraRef, pg_isListeningRef, pg_pendingStart,
                 pg_pendingStop, pg_isRecordingRef, pg_mediaRecorderRef, pg_recState,
                 pg_stopTask, pg_chunksRef, pg_recordingStartTimeRef, pg_silenceTimers,
                 pg_silenceTimeoutRef, pg_nRec, pg_transcription, pg_isProcessing,
                 pg_onstop, vd_initRun, vd_isInitialized, vd_error, vd_streamRef,
                 vd_cobraRef, vd_isListeningRef, vd_pendingStart, vd_pendingStop,
                 vd_isRecordingRef, vd_mediaRecorderRef, vd_recState, vd_stopTask,
                 vd_audioChunksRef, vd_recordingStartTimeRef, vd_silenceTimers,
                 vd_silenceTimeoutRef, vd_nRec, vd_startTime, vd_audioClips,
                 vd_latestClip, ix_isListening, ix_isRecording, ix_audioPackets,
                 ix_memoListening, ix_pendingStart, ix_vads, ix_streamRef,
                 ix_mediaRecorderRef, ix_recState, ix_stopTask, ix_nRec,
                 ix_recListening, ix_audioChunksRef, ix_currentRecordingStartTime,
                 ix_silenceStartRef, ix_isLongPauseRef, ix_pauseTimers,
                 ix_pauseTimeoutRef, sv_clients, sv_sock, sv_isAlive, sv_buffer,
                 sv_timers, sv_timeoutVar, sv_requests, sv_nextSweep, sv_nAudio,
                 sv_pinged, sv_swept, sd, av>>

\* faulty variant: the buffer is handed to processAudio and not emptied
ServerProcessingTimeout_KeepsBuffer(c, d) ==
  /\ d \in sv_timers[c]
  /\ now >= d
  /\ sv_timers' = [sv_timers EXCEPT ![c] = @ \ {d}]
  /\ sv_requests' = Append(sv_requests,
                           [conn |-> c, audio |-> ChunkIds(sv_buffer[c]),
                            size |-> TotalSize(sv_buffer[c]),
                            status |-> "pending"])
  /\ UNCHANGED <<now, initRun, isInitialized, error, streamRef, cobraRef,
                 audioContextRef, isListeningRef, pendingStart, pendingStop,
                 isRecordingRef, mediaRecorderRef, recState, stopTask, chunksRef,
                 delivered, recordingStartTimeRef, silenceTimers, silenceTimeoutRef,
                 maxTimer, recordingTimeoutRef, nRec, jobs, processingQueueRef,
                 transcription, isProcessing, released, voicedPastMin, debounced,
                 stopBy, stopAttempts, onstops, pg_initRun, pg_isInitialized, pg_error,
                 pg_streamRef, pg_cobraRef, pg_isListeningRef, pg_pendingStart,
                 pg_pendingStop, pg_isRecordingRef, pg_mediaRecorderRef, pg_recState,
                 pg_stopTask, pg_chunksRef, pg_recordingStartTimeRef, pg_silenceTimers,
                 pg_silenceTimeoutRef, pg_nRec, pg_transcription, pg_isProcessing,
                 pg_onstop, vd_initRun, vd_isInitialized, vd_error, vd_streamRef,
                 vd_cobraRef, vd_isListeningRef, vd_pendingStart, vd_pendingStop,
                 vd_isRecordingRef, vd_mediaRecorderRef, vd_recState, vd_stopTask,
                 vd_audioChunksRef, vd_recordingStartTimeRef, vd_silenceTimers,
                 vd_silenceTimeoutRef, vd_nRec, vd_startTime, vd_audioClips,
                 vd_latestClip, ix_isListening, ix_isRecording, ix_audioPackets,
                 ix_memoListening, ix_pendingStart, ix_vads, ix_streamRef,
                 ix_mediaRecorderRef, ix_recState, ix_stopTask, ix_nRec,
                 ix_recListening, ix_audioChunksRef, ix_currentRecordingStartTime,
                 ix_silenceStartRef, ix_isLongPauseRef, ix_pauseTimers,
                 ix_pauseTimeoutRef, sv_clients, sv_sock, sv_isAlive, sv_buffer,
                 sv_timeoutVar, sv_out, sv_nextSweep, sv_nAudio, sv_pinged, sv_swept,
                 sd, av>>

\* the audioProcessingTimeout callback set for deadline d, up to its await
\* (server.js:124-131)
ServerProcessingTimeout(c, d) ==
  /\ d \in sv_timers[c]
  /\ now >= d
  /\ sv_timers' = [sv_timers EXCEPT ![c] = @ \ {d}]
  /\ sv_requests' = Append(sv_requests,
                           [conn |-> c, audio |-> ChunkIds(sv_buffer[c]),
                            size |-> TotalSize(sv_buffer[c]),
                            status |-> "pending"])
  /\ sv_buffer' = [sv_buffer EXCEPT ![c] = <<>>]
  /\ UNCHANGED <<now, initRun, isInitialized, error, streamRef, cobraRef,
                 audioContextRef, isListeningRef, pendingStart, pendingStop,
                 isRecordingRef, mediaRecorderRef, recState, stopTask, chunksRef,
                 delivered, recordingStartTimeRef, silenceTimers, silenceTimeoutRef,
                 maxTimer, recordingTimeoutRef, nRec, jobs, processingQueueRef,
                 transcription, isProcessing, released, voicedPastMin, debounced,
                 stopBy, stopAttempts, onstops, pg_initRun, pg_isInitialized, pg_error,
                 pg_streamRef, pg_cobraRef, pg_isListeningRef, pg_pendingStart,
                 pg_pendingStop, pg_isRecordingRef, pg_mediaRecorderRef, pg_recState,
                 pg_stopTask, pg_chunksRef, pg_recordingStartTimeRef, pg_silenceTimers,
                 pg_silenceTimeoutRef, pg_nRec, pg_transcription, pg_isProcessing,
                 pg_onstop, vd_initRun, vd_isInitialized, vd_error, vd_streamRef,
                 vd_cobraRef, vd_isListeningRef, vd_pendingStart, vd_pendingStop,
                 vd_isRecordingRef, vd_mediaRecorderRef, vd_recState, vd_stopTask,
                 vd_audioChunksRef, vd_recordingStartTimeRef, vd_silenceTimers,
                 vd_silenceTimeoutRef, vd_nRec, vd_startTime, vd_audioClips,
                 vd_latestClip, ix_isListening, ix_isRecording, ix_audioPackets,
                 ix_memoListening, ix_pendingStart, ix_vads, ix_streamRef,
                 ix_mediaRecorderRef, ix_recState, ix_stopTask, ix_nRec,
                 ix_recListening, ix_audioChunksRef, ix_currentRecordingStartTime,
                 ix_silenceStartRef, ix_isLongPauseRef, ix_pauseTimers,
                 ix_pauseTimeoutRef, sv_clients, sv_sock, sv_isAlive, sv_timeoutVar,
                 sv_out, sv_nextSweep, sv_nAudio, sv_pinged, sv_swept, sd, av>>

\* processAudio settles (server.js:47-78) and the callback goes on
\* (server.js:131-147).  On a socket that is no longer open ws.send puts
\* nothing on the wire: it reports an error or throws, and a throw ends the
\* callback in its catch block, whose own ws.send fares the same.
ServerProcessAudioSettles(k, ok) ==
  /\ k \in 1..Len(sv_requests)
  /\ sv_requests[k].status = "pending"
  /\ sv_requests' = [sv_requests EXCEPT ![k].status = IF ok THEN "done" ELSE "failed"]
  /\ sv_out' = [sv_out EXCEPT ![sv_requests[k].conn] =
                  IF sv_sock[sv_requests[k].conn] = "open"
                    THEN Append(@, IF ok THEN Transcript(k) ELSE ErrorAudio(k))
                    ELSE @]
  /\ UNCHANGED <<now, initRun, isInitialized, error, streamRef, cobraRef,
                 audioContextRef, isListeningRef, pendingStart, pendingStop,
                 isRecordingRef, mediaRecorderRef, recState, stopTask, chunksRef,
                 delivered, recordingStartTimeRef, silenceTimers, silenceTimeoutRef,
                 maxTimer, recordingTimeoutRef, nRec, jobs, processingQueueRef,
                 transcription, isProcessing, released, voicedPastMin, debounced,
                 stopBy, stopAttempts, onstops, pg_initRun, pg_isInitialized, pg_error,
                 pg_streamRef, pg_cobraRef, pg_isListeningRef, pg_pendingStart,
                 pg_pendingStop, pg_isRecordingRef, pg_mediaRecorderRef, pg_recState,
                 pg_stopTask, pg_chunksRef, pg_recordingStartTimeRef, pg_silenceTimers,
                 pg_silenceTimeoutRef, pg_nRec, pg_transcription, pg_isProcessing,
                 pg_onstop, vd_initRun, vd_isInitialized, vd_error, vd_streamRef,
                 vd_cobraRef, vd_isListeningRef, vd_pendingStart, vd_pendingStop,
                 vd_isRecordingRef, vd_mediaRecorderRef, vd_recState, vd_stopTask,
                 vd_audioChunksRef, vd_recordingStartTimeRef, vd_silenceTimers,
                 vd_silenceTimeoutRef, vd_nRec, vd_startTime, vd_audioClips,
                 vd_latestClip, ix_isListening, ix_isRecording, ix_audioPackets,
                 ix_memoListening, ix_pendingStart, ix_vads, ix_streamRef,
                 ix_mediaRecorderRef, ix_recState, ix_stopTask, ix_nRec,
                 ix_recListening, ix_audioChunksRef, ix_currentRecordingStartTime,
                 ix_silenceStartRef, ix_isLongPauseRef, ix_pauseTimers,
                 ix_pauseTimeoutRef, sv_clients, sv_sock, sv_isAlive, sv_buffer,
                 sv_timers, sv_timeoutVar, sv_nextSweep, sv_nAudio, sv_pinged,
                 sv_swept, sd, av>>

\* ws.on('close') / ws.on('error') (server.js:165-175)
ServerClose(c) ==
  /\ sv_sock[c] = "open"
  /\ sv_sock' = [sv_sock EXCEPT ![c] = "closed"]
  /\ sv_clients' = sv_clients \ {c}
  /\ UNCHANGED <<now, initRun, isInitialized, error, streamRef, cobraRef,
                 audioContextRef, isListeningRef, pendingStart, pendingStop,
                 isRecordingRef, mediaRecorderRef, recState, stopTask, chunksRef,
                 delivered, recordingStartTimeRef, silenceTimers, silenceTimeoutRef,
                 maxTimer, recordingTimeoutRef, nRec, jobs, processingQueueRef,
                 transcription, isProcessing, released, voicedPastMin, debounced,
                 stopBy, stopAttempts, onstops, pg_initRun, pg_isInitialized, pg_error,
                 pg_streamRef, pg_cobraRef, pg_isListeningRef, pg_pendingStart,
                 pg_pendingStop, pg_isRecordingRef, pg_mediaRecorderRef, pg_recState,
                 pg_stopTask, pg_chunksRef, pg_recordingStartTimeRef, pg_silenceTimers,
                 pg_silenceTimeoutRef, pg_nRec, pg_transcription, pg_isProcessing,
                 pg_onstop, vd_initRun, vd_isInitialized, vd_error, vd_streamRef,
                 vd_cobraRef, vd_isListeningRef, vd_pendingStart, vd_pendingStop,
                 vd_isRecordingRef, vd_mediaRecorderRef, vd_recState, vd_stopTask,
                 vd_audioChunksRef, vd_recordingStartTimeRef, vd_silenceTimers,
                 vd_silenceTimeoutRef, vd_nRec, vd_startTime, vd_audioClips,
                 vd_latestClip, ix_isListening, ix_isRecording, ix_audioPackets,
                 ix_memoListening, ix_pendingStart, ix_vads, ix_streamRef,
                 ix_mediaRecorderRef, ix_recState, ix_stopTask, ix_nRec,
                 ix_recListening, ix_audioChunksRef, ix_currentRecordingStartTime,
                 ix_silenceStartRef, ix_isLongPauseRef, ix_pauseTimers,
                 ix_pauseTimeoutRef, sv_isAlive, sv_buffer, sv_timers, sv_timeoutVar,
                 sv_requests, sv_out, sv_nextSweep, sv_nAudio, sv_pinged, sv_swept, sd,
                 av>>

\* the setInterval callback (server.js:179-190)
ServerSweep ==
  LET dead == {c \in sv_clients : ~sv_isAlive[c]}
  IN /\ now >= sv_nextSweep
     /\ sv_nextSweep' = sv_nextSweep + PING_INTERVAL
     /\ sv_sock' = [c \in Conns |-> IF c \in dead THEN "terminated" ELSE sv_sock[c]]
     /\ sv_clients' = sv_clients \ dead
     /\ sv_isAlive' = [c \in Conns |-> IF c \in sv_clients \ dead THEN FALSE
                                                               ELSE sv_isAlive[c]]
     /\ sv_pinged' = [c \in Conns |-> FALSE]
     /\ sv_swept' = [c \in Conns |-> c \in sv_clients \ dead]
     /\ UNCHANGED <<now, initRun, isInitialized, error, streamRef, cobraRef,
                    audioContextRef, isListeningRef, pendingStart, pendingStop,
                    isRecordingRef, mediaRecorderRef, recState, stopTask, chunksRef,
                    delivered, recordingStartTimeRef, silenceTimers, silenceTimeoutRef,
                    maxTimer, recordingTimeoutRef, nRec, jobs, processingQueueRef,
                    transcription, isProcessing, released, voicedPastMin, debounced,
                    stopBy, stopAttempts, onstops, pg_initRun, pg_isInitialized,
                    pg_error, pg_streamRef, pg_cobraRef, pg_isListeningRef,
                    pg_pendingStart, pg_pendingStop, pg_isRecordingRef,
                    pg_mediaRecorderRef, pg_recState, pg_stopTask, pg_chunksRef,
                    pg_recordingStartTimeRef, pg_silenceTimers, pg_silenceTimeoutRef,
                    pg_nRec, pg_transcription, pg_isProcessing, pg_onstop, vd_initRun,
                    vd_isInitialized, vd_error, vd_streamRef, vd_cobraRef,
                    vd_isListeningRef, vd_pendingStart, vd_pendingStop,
                    vd_isRecordingRef, vd_mediaRecorderRef, vd_recState, vd_stopTask,
                    vd_audioChunksRef, vd_recordingStartTimeRef, vd_silenceTimers,
                    vd_silenceTimeoutRef, vd_nRec, vd_startTime, vd_audioClips,
                    vd_latestClip, ix_isListening, ix_isRecording, ix_audioPackets,
                    ix_memoListening, ix_pendingStart, ix_vads, ix_streamRef,
                    ix_mediaRecorderRef, ix_recState, ix_stopTask, ix_nRec,
                    ix_recListening, ix_audioChunksRef, ix_currentRecordingStartTime,
                    ix_silenceStartRef, ix_isLongPauseRef, ix_pauseTimers,
                    ix_pauseTimeoutRef, sv_buffer, sv_timers, sv_timeoutVar,
                    sv_requests, sv_out, sv_nAudio, sd, av>>

\* ================================================================== Part VI
\* VoiceDetector of src/src/app/speech2tex.tsx (lines 203-517): cobra samples,
\* a silence timer and a recorder whose finalized sessions become audio
\* clips.  It keeps isListening and isRecording as React state, not in refs.
\* Its state is the record sd; it shares the clock.

\* speech2tex.tsx:210 (0.2, in hundredths)
SD_VOICE_PROBABILITY_THRESHOLD == 20
\* speech2tex.tsx:211 (milliseconds)
SD_SILENCE_DURATION_THRESHOLD == 1500

SdProbs == {SD_VOICE_PROBABILITY_THRESHOLD - 1, SD_VOICE_PROBABILITY_THRESHOLD,
            SD_VOICE_PROBABILITY_THRESHOLD + 1}
\* PICOVOICE_ACCESS_KEY is a literal (208-209); create or getUserMedia may fail
SdInitOutcomes == {"ok", "cobraFail", "micDenied"}

\* The values of the state variables in the render whose mount effect ran
\* (useState initial values, 225-231; useEffect with no dependencies,
\* 239-244).  initializeVoiceDetector of that render builds the cobra
\* callback, so the handleVoiceDetected and handleSilenceDetected the callback
\* calls are that render's and read these values ever after.
SdMountRender == [isRecording |-> FALSE, isListening |-> FALSE]

\* initializeVoiceDetector (speech2tex.tsx:247-278), run once by the mount
\* effect: CobraWorker.create, then getUserMedia
SdInitializeVoiceDetector(outcome) ==
  /\ ~sd.initRun
  /\ sd' = [sd EXCEPT !.initRun = TRUE,
                      !.streamRef = (outcome = "ok"),
                      !.cobra = (outcome = "ok"),
                      !.isInitialized = (outcome = "ok"),
                      !.error = IF outcome = "ok" THEN @ ELSE outcome]
  /\ UNCHANGED <<now, initRun, isInitialized, error, streamRef, cobraRef,
                 audioContextRef, isListeningRef, pendingStart, pendingStop,
                 isRecordingRef, mediaRecorderRef, recState, stopTask, chunksRef,
                 delivered, recordingStartTimeRef, silenceTimers, silenceTimeoutRef,
                 maxTimer, recordingTimeoutRef, nRec, jobs, processingQueueRef,
                 transcription, isProcessing, released, voicedPastMin, debounced,
                 stopBy, stopAttempts, onstops, pg_initRun, pg_isInitialized, pg_error,
                 pg_streamRef, pg_cobraRef, pg_isListeningRef, pg_pendingStart,
                 pg_pendingStop, pg_isRecordingRef, pg_mediaRecorderRef, pg_recState,
                 pg_stopTask, pg_chunksRef, pg_recordingStartTimeRef, pg_silenceTimers,
                 pg_silenceTimeoutRef, pg_nRec, pg_transcription, pg_isProcessing,
                 pg_onstop, vd_initRun, vd_isInitialized, vd_error, vd_streamRef,
                 vd_cobraRef, vd_isListeningRef, vd_pendingStart, vd_pendingStop,
                 vd_isRecordingRef, vd_mediaRecorderRef, vd_recState, vd_stopTask,
                 vd_audioChunksRef, vd_recordingStartTimeRef, vd_silenceTimers,
                 vd_silenceTimeoutRef, vd_nRec, vd_startTime, vd_audioClips,
                 vd_latestClip, ix_isListening, ix_isRecording, ix_audioPackets,
                 ix_memoListening, ix_pendingStart, ix_vads, ix_streamRef,
                 ix_mediaRecorderRef, ix_recState, ix_stopTask, ix_nRec,
                 ix_recListening, ix_audioChunksRef, ix_currentRecordingStartTime,
                 ix_silenceStartRef, ix_isLongPauseRef, ix_pauseTimers,
                 ix_pauseTimeoutRef, sv_clients, sv_sock, sv_isAlive, sv_buffer,
                 sv_timers, sv_timeoutVar, sv_requests, sv_out, sv_nextSweep,
                 sv_nAudio, sv_pinged, sv_swept, av>>

\* startRecording (speech2tex.tsx:280-330) applied to the state s
SdStartRecording(s, outcome) ==
  IF ~s.streamRef \/ (s.mediaRecorderRef # 0 /\ s.recState[s.mediaRecorderRef] = "recording")
    THEN s
    ELSE IF outcome = "ctorThrows"
      THEN [s EXCEPT !.error = "Failed to start recording"]
      ELSE LET t == [s EXCEPT !.nRec = @ + 1,
                              !.mediaRecorderRef = s.nRec + 1,
                              !.audioChunksRef = <<>>]
           IN IF outcome = "startThrows"
                THEN [t EXCEPT !.recState[s.nRec + 1] = "inactive",
                               !.error = "Failed to start recording"]
                ELSE [t EXCEPT !.recState[s.nRec + 1] = "recording",
                               !.recordingStartTimeRef = DateNow,
                               !.isRecording = TRUE]

\* stopRecording (speech2tex.tsx:332-338) applied to the state s
SdStopRecording(s) ==
  LET m == s.mediaRecorderRef
  IN IF m # 0 /\ s.recState[m] = "recording"
       THEN [s EXCEPT !.recState[m] = "inactive",
                      !.stopTask[m] = @ + 1,
                      !.isRecording = FALSE,
                      !.recordingStartTimeRef = Null]
       ELSE s

\* handleVoiceDetected (speech2tex.tsx:340-350) of the render `render`
SdHandleVoiceDetected(s, render, outcome) ==
  LET t == [s EXCEPT !.silenceTimers = IF s.silenceTimeoutRef # Null
                                         THEN @ \ {s.silenceTimeoutRef} ELSE @,
                     !.silenceTimeoutRef = Null]
  IN IF ~render.isRecording /\ render.isListening
       THEN SdStartRecording(t, outcome)
       ELSE t

\* handleSilenceDetected (speech2tex.tsx:352-360) of the render `render`
SdHandleSilenceDetected(s, render) ==
  IF s.silenceTimeoutRef = Null /\ render.isRecording
    THEN [s EXCEPT !.silenceTimers = @ \cup {now + SD_SILENCE_DURATION_THRESHOLD},
                   !.silenceTimeoutRef = now + SD_SILENCE_DURATION_THRESHOLD]
    ELSE s

\* handleVoiceProbability, the cobra callback (speech2tex.tsx:249-258)
SdHandleVoiceProbability(probability, outcome) ==
  LET s == [sd EXCEPT !.currentProbability = probability]
  IN /\ sd.cobra
     /\ sd' = IF probability > SD_VOICE_PROBABILITY_THRESHOLD
                THEN SdHandleVoiceDetected(
                       [s EXCEPT !.voiceDetected = @ \cup {probability}],
                       SdMountRender, outcome)
                ELSE SdHandleSilenceDetected(s, SdMountRender)
     /\ sd'.nRec <= MaxSessions
     /\ UNCHANGED <<now, initRun, isInitialized, error, streamRef, cobraRef,
                    audioContextRef, isListeningRef, pendingStart, pendingStop,
                    isRecordingRef, mediaRecorderRef, recState, stopTask, chunksRef,
                    delivered, recordingStartTimeRef, silenceTimers, silenceTimeoutRef,
                    maxTimer, recordingTimeoutRef, nRec, jobs, processingQueueRef,
                    transcription, isProcessing, released, voicedPastMin, debounced,
                    stopBy, stopAttempts, onstops, pg_initRun, pg_isInitialized,
                    pg_error, pg_streamRef, pg_cobraRef, pg_isListeningRef,
                    pg_pendingStart, pg_pendingStop, pg_isRecordingRef,
                    pg_mediaRecorderRef, pg_recState, pg_stopTask, pg_chunksRef,
                    pg_recordingStartTimeRef, pg_silenceTimers, pg_silenceTimeoutRef,
                    pg_nRec, pg_transcription, pg_isProcessing, pg_onstop, vd_initRun,
                    vd_isInitialized, vd_error, vd_streamRef, vd_cobraRef,
                    vd_isListeningRef, vd_pendingStart, vd_pendingStop,
                    vd_isRecordingRef, vd_mediaRecorderRef, vd_recState, vd_stopTask,
                    vd_audioChunksRef, vd_recordingStartTimeRef, vd_silenceTimers,
                    vd_silenceTimeoutRef, vd_nRec, vd_startTime, vd_audioClips,
                    vd_latestClip, ix_isListening, ix_isRecording, ix_audioPackets,
                    ix_memoListening, ix_pendingStart, ix_vads, ix_streamRef,
                    ix_mediaRecorderRef, ix_recState, ix_stopTask, ix_nRec,
                    ix_recListening, ix_audioChunksRef, ix_currentRecordingStartTime,
                    ix_silenceStartRef, ix_isLongPauseRef, ix_pauseTimers,
                    ix_pauseTimeoutRef, sv_clients, sv_sock, sv_isAlive, sv_buffer,
                    sv_timers, sv_timeoutVar, sv_requests, sv_out, sv_nextSweep,
                    sv_nAudio, sv_pinged, sv_swept, av>>

\* the silence timer's callback (speech2tex.tsx:355-358)
SdSilenceTimeout(d) ==
  /\ d \in sd.silenceTimers
  /\ now >= d
  /\ sd' = [SdStopRecording([sd EXCEPT !.silenceTimers = @ \ {d}])
              EXCEPT !.silenceTimeoutRef = Null]
  /\ UNCHANGED <<now, initRun, isInitialized, error, streamRef, cobraRef,
                 audioContextRef, isListeningRef, pendingStart, pendingStop,
                 isRecordingRef, mediaRecorderRef, recState, stopTask, chunksRef,
                 delivered, recordingStartTimeRef, silenceTimers, silenceTimeoutRef,
                 maxTimer, recordingTimeoutRef, nRec, jobs, processingQueueRef,
                 transcription, isProcessing, released, voicedPastMin, debounced,
                 stopBy, stopAttempts, onstops, pg_initRun, pg_isInitialized, pg_error,
                 pg_streamRef, pg_cobraRef, pg_isListeningRef, pg_pendingStart,
                 pg_pendingStop, pg_isRecordingRef, pg_mediaRecorderRef, pg_recState,
                 pg_stopTask, pg_chunksRef, pg_recordingStartTimeRef, pg_silenceTimers,
                 pg_silenceTimeoutRef, pg_nRec, pg_transcription, pg_isProcessing,
                 pg_onstop, vd_initRun, vd_isInitialized, vd_error, vd_streamRef,
                 vd_cobraRef, vd_isListeningRef, vd_pendingStart, vd_pendingStop,
                 vd_isRecordingRef, vd_mediaRecorderRef, vd_recState, vd_stopTask,
                 vd_audioChunksRef, vd_recordingStartTimeRef, vd_silenceTimers,
                 vd_silenceTimeoutRef, vd_nRec, vd_startTime, vd_audioClips,
                 vd_latestClip, ix_isListening, ix_isRecording, ix_audioPackets,
                 ix_memoListening, ix_pendingStart, ix_vads, ix_streamRef,
                 ix_mediaRecorderRef, ix_recState, ix_stopTask, ix_nRec,
                 ix_recListening, ix_audioChunksRef, ix_currentRecordingStartTime,
                 ix_silenceStartRef, ix_isLongPauseRef, ix_pauseTimers,
                 ix_pauseTimeoutRef, sv_clients, sv_sock, sv_isAlive, sv_buffer,
                 sv_timers, sv_timeoutVar, sv_requests, sv_out, sv_nextSweep,
                 sv_nAudio, sv_pinged, sv_swept, av>>

\* The task MediaRecorder.stop() queued for recorder r: dataavailable
\* (speech2tex.tsx:290-294), then stop (mediaRecorder.onstop, 296-318).
\* duration is kept in milliseconds: the code divides it by 1000.
SdRecorderStopTask(r, size) ==
  LET chunks == IF size > 0 THEN Append(sd.audioChunksRef, r) ELSE sd.audioChunksRef
      duration == IF sd.recordingStartTimeRef # Null
                    THEN DateNow - sd.recordingStartTimeRef ELSE 0
  IN /\ sd.stopTask[r] > 0
     /\ sd' = [sd EXCEPT !.stopTask[r] = @ - 1,
                         !.audioClips = IF Len(chunks) > 0
                                          THEN Append(@, [session |-> r, duration |-> duration])
                                          ELSE @,
                         !.audioChunksRef = <<>>]
     /\ UNCHANGED <<now, initRun, isInitialized, error, streamRef, cobraRef,
                    audioContextRef, isListeningRef, pendingStart, pendingStop,
                    isRecordingRef, mediaRecorderRef, recState, stopTask, chunksRef,
                    delivered, recordingStartTimeRef, silenceTimers, silenceTimeoutRef,
                    maxTimer, recordingTimeoutRef, nRec, jobs, processingQueueRef,
                    transcription, isProcessing, released, voicedPastMin, debounced,
                    stopBy, stopAttempts, onstops, pg_initRun, pg_isInitialized,
                    pg_error, pg_streamRef, pg_cobraRef, pg_isListeningRef,
                    pg_pendingStart, pg_pendingStop, pg_isRecordingRef,
                    pg_mediaRecorderRef, pg_recState, pg_stopTask, pg_chunksRef,
                    pg_recordingStartTimeRef, pg_silenceTimers, pg_silenceTimeoutRef,
                    pg_nRec, pg_transcription, pg_isProcessing, pg_onstop, vd_initRun,
                    vd_isInitialized, vd_error, vd_streamRef, vd_cobraRef,
                    vd_isListeningRef, vd_pendingStart, vd_pendingStop,
                    vd_isRecordingRef, vd_mediaRecorderRef, vd_recState, vd_stopTask,
                    vd_audioChunksRef, vd_recordingStartTimeRef, vd_silenceTimers,
                    vd_silenceTimeoutRef, vd_nRec, vd_startTime, vd_audioClips,
                    vd_latestClip, ix_isListening, ix_isRecording, ix_audioPackets,
                    ix_memoListening, ix_pendingStart, ix_vads, ix_streamRef,
                    ix_mediaRecorderRef, ix_recState, ix_stopTask, ix_nRec,
                    ix_recListening, ix_audioChunksRef, ix_currentRecordingStartTime,
                    ix_silenceStartRef, ix_isLongPauseRef, ix_pauseTimers,
                    ix_pauseTimeoutRef, sv_clients, sv_sock, sv_isAlive, sv_buffer,
                    sv_timers, sv_timeoutVar, sv_requests, sv_out, sv_nextSweep,
                    sv_nAudio, sv_pinged, sv_swept, av>>

\* startListening up to its await (speech2tex.tsx:362-365), from the button
\* of the current render
SdStartListeningCall ==
  /\ ~sd.isListening /\ sd.cobra
  /\ sd.pendingStart < MaxPending
  /\ sd' = [sd EXCEPT !.pendingStart = @ + 1]
  /\ UNCHANGED <<now, initRun, isInitialized, error, streamRef, cobraRef,
                 audioContextRef, isListeningRef, pendingStart, pendingStop,
                 isRecordingRef, mediaRecorderRef, recState, stopTask, chunksRef,
                 delivered, recordingStartTimeRef, silenceTimers, silenceTimeoutRef,
                 maxTimer, recordingTimeoutRef, nRec, jobs, processingQueueRef,
                 transcription, isProcessing, released, voicedPastMin, debounced,
                 stopBy, stopAttempts, onstops, pg_initRun, pg_isInitialized, pg_error,
                 pg_streamRef, pg_cobraRef, pg_isListeningRef, pg_pendingStart,
                 pg_pendingStop, pg_isRecordingRef, pg_mediaRecorderRef, pg_recState,
                 pg_stopTask, pg_chunksRef, pg_recordingStartTimeRef, pg_silenceTimers,
                 pg_silenceTimeoutRef, pg_nRec, pg_transcription, pg_isProcessing,
                 pg_onstop, vd_initRun, vd_isInitialized, vd_error, vd_streamRef,
                 vd_cobraRef, vd_isListeningRef, vd_pendingStart, vd_pendingStop,
                 vd_isRecordingRef, vd_mediaRecorderRef, vd_recState, vd_stopTask,
                 vd_audioChunksRef, vd_recordingStartTimeRef, vd_silenceTimers,
                 vd_silenceTimeoutRef, vd_nRec, vd_startTime, vd_audioClips,
                 vd_latestClip, ix_isListening, ix_isRecording, ix_audioPackets,
                 ix_memoListening, ix_pendingStart, ix_vads, ix_streamRef,
                 ix_mediaRecorderRef, ix_recState, ix_stopTask, ix_nRec,
                 ix_recListening, ix_audioChunksRef, ix_currentRecordingStartTime,
                 ix_silenceStartRef, ix_isLongPauseRef, ix_pauseTimers,
                 ix_pauseTimeoutRef, sv_clients, sv_sock, sv_isAlive, sv_buffer,
                 sv_timers, sv_timeoutVar, sv_requests, sv_out, sv_nextSweep,
                 sv_nAudio, sv_pinged, sv_swept, av>>

\* startListening after WebVoiceProcessor.subscribe settled (365-374)
SdStartListeningResume(subscribed) ==
  /\ sd.pendingStart > 0
  /\ sd' = IF subscribed
             THEN [sd EXCEPT !.pendingStart = @ - 1, !.isListening = TRUE,
                             !.error = NoError]
             ELSE [sd EXCEPT !.pendingStart = @ - 1,
                             !.error = "Failed to start voice detection"]
  /\ UNCHANGED <<now, initRun, isInitialized, error, streamRef, cobraRef,
                 audioContextRef, isListeningRef, pendingStart, pendingStop,
                 isRecordingRef, mediaRecorderRef, recState, stopTask, chunksRef,
                 delivered, recordingStartTimeRef, silenceTimers, silenceTimeoutRef,
                 maxTimer, recordingTimeoutRef, nRec, jobs, processingQueueRef,
                 transcription, isProcessing, released, voicedPastMin, debounced,
                 stopBy, stopAttempts, onstops, pg_initRun, pg_isInitialized, pg_error,
                 pg_streamRef, pg_cobraRef, pg_isListeningRef, pg_pendingStart,
                 pg_pendingStop, pg_isRecordingRef, pg_mediaRecorderRef, pg_recState,
                 pg_stopTask, pg_chunksRef, pg_recordingStartTimeRef, pg_silenceTimers,
                 pg_silenceTimeoutRef, pg_nRec, pg_transcription, pg_isProcessing,
                 pg_onstop, vd_initRun, vd_isInitialized, vd_error, vd_streamRef,
                 vd_cobraRef, vd_isListeningRef, vd_pendingStart, vd_pendingStop,
                 vd_isRecordingRef, vd_mediaRecorderRef, vd_recState, vd_stopTask,
                 vd_audioChunksRef, vd_recordingStartTimeRef, vd_silenceTimers,
                 vd_silenceTimeoutRef, vd_nRec, vd_startTime, vd_audioClips,
                 vd_latestClip, ix_isListening, ix_isRecording, ix_audioPackets,
                 ix_memoListening, ix_pendingStart, ix_vads, ix_streamRef,
                 ix_mediaRecorderRef, ix_recState, ix_stopTask, ix_nRec,
                 ix_recListening, ix_audioChunksRef, ix_currentRecordingStartTime,
                 ix_silenceStartRef, ix_isLongPauseRef, ix_pauseTimers,
                 ix_pauseTimeoutRef, sv_clients, sv_sock, sv_isAlive, sv_buffer,
                 sv_timers, sv_timeoutVar, sv_requests, sv_out, sv_nextSweep,
                 sv_nAudio, sv_pinged, sv_swept, av>>

\* stopListening up to its await (speech2tex.tsx:377-380); the call keeps the
\* isRecording of the render it was made from
SdStopListeningCall ==
  /\ sd.isListening /\ sd.cobra
  /\ Len(sd.pendingStop) < MaxPending
  /\ sd' = [sd EXCEPT !.pendingStop = Append(@, sd.isRecording)]
  /\ UNCHANGED <<now, initRun, isInitialized, error, streamRef, cobraRef,
                 audioContextRef, isListeningRef, pendingStart, pendingStop,
                 isRecordingRef, mediaRecorderRef, recState, stopTask, chunksRef,
                 delivered, recordingStartTimeRef, silenceTimers, silenceTimeoutRef,
                 maxTimer, recordingTimeoutRef, nRec, jobs, processingQueueRef,
                 transcription, isProcessing, released, voicedPastMin, debounced,
                 stopBy, stopAttempts, onstops, pg_initRun, pg_isInitialized, pg_error,
                 pg_streamRef, pg_cobraRef, pg_isListeningRef, pg_pendingStart,
                 pg_pendingStop, pg_isRecordingRef, pg_mediaRecorderRef, pg_recState,
                 pg_stopTask, pg_chunksRef, pg_recordingStartTimeRef, pg_silenceTimers,
                 pg_silenceTimeoutRef, pg_nRec, pg_transcription, pg_isProcessing,
                 pg_onstop, vd_initRun, vd_isInitialized, vd_error, vd_streamRef,
                 vd_cobraRef, vd_isListeningRef, vd_pendingStart, vd_pendingStop,
                 vd_isRecordingRef, vd_mediaRecorderRef, vd_recState, vd_stopTask,
                 vd_audioChunksRef, vd_recordingStartTimeRef, vd_silenceTimers,
                 vd_silenceTimeoutRef, vd_nRec, vd_startTime, vd_audioClips,
                 vd_latestClip, ix_isListening, ix_isRecording, ix_audioPackets,
                 ix_memoListening, ix_pendingStart, ix_vads, ix_streamRef,
                 ix_mediaRecorderRef, ix_recState, ix_stopTask, ix_nRec,
                 ix_recListening, ix_audioChunksRef, ix_currentRecordingStartTime,
                 ix_silenceStartRef, ix_isLongPauseRef, ix_pauseTimers,
                 ix_pauseTimeoutRef, sv_clients, sv_sock, sv_isAlive, sv_buffer,
                 sv_timers, sv_timeoutVar, sv_requests, sv_out, sv_nextSweep,
                 sv_nAudio, sv_pinged, sv_swept, av>>

\* stopListening after WebVoiceProcessor.unsubscribe settled (380-390)
SdStopListeningResume(unsubscribed) ==
  /\ Len(sd.pendingStop) > 0
  /\ LET s == [sd EXCEPT !.pendingStop = Tail(@)]
     IN sd' = IF unsubscribed
                THEN LET t == [s EXCEPT !.isListening = FALSE]
                     IN IF Head(sd.pendingStop) THEN SdStopRecording(t) ELSE t
                ELSE [s EXCEPT !.error = "Failed to stop voice detection"]
  /\ UNCHANGED <<now, initRun, isInitialized, error, streamRef, cobraRef,
                 audioContextRef, isListeningRef, pendingStart, pendingStop,
                 isRecordingRef, mediaRecorderRef, recState, stopTask, chunksRef,
                 delivered, recordingStartTimeRef, silenceTimers, silenceTimeoutRef,
                 maxTimer, recordingTimeoutRef, nRec, jobs, processingQueueRef,
                 transcription, isProcessing, released, voicedPastMin, debounced,
                 stopBy, stopAttempts, onstops, pg_initRun, pg_isInitialized, pg_error,
                 pg_streamRef, pg_cobraRef, pg_isListeningRef, pg_pendingStart,
                 pg_pendingStop, pg_isRecordingRef, pg_mediaRecorderRef, pg_recState,
                 pg_stopTask, pg_chunksRef, pg_recordingStartTimeRef, pg_silenceTimers,
                 pg_silenceTimeoutRef, pg_nRec, pg_transcription, pg_isProcessing,
                 pg_onstop, vd_initRun, vd_isInitialized, vd_error, vd_streamRef,
                 vd_cobraRef, vd_isListeningRef, vd_pendingStart, vd_pendingStop,
                 vd_isRecordingRef, vd_mediaRecorderRef, vd_recState, vd_stopTask,
                 vd_audioChunksRef, vd_recordingStartTimeRef, vd_silenceTimers,
                 vd_silenceTimeoutRef, vd_nRec, vd_startTime, vd_audioClips,
                 vd_latestClip, ix_isListening, ix_isRecording, ix_audioPackets,
                 ix_memoListening, ix_pendingStart, ix_vads, ix_streamRef,
                 ix_mediaRecorderRef, ix_recState, ix_stopTask, ix_nRec,
                 ix_recListening, ix_audioChunksRef, ix_currentRecordingStartTime,
                 ix_silenceStartRef, ix_isLongPauseRef, ix_pauseTimers,
                 ix_pauseTimeoutRef, sv_clients, sv_sock, sv_isAlive, sv_buffer,
                 sv_timers, sv_timeoutVar, sv_requests, sv_out, sv_nextSweep,
                 sv_nAudio, sv_pinged, sv_swept, av>>
\* ================================================================= Part VII
\* VoiceDetector with AssemblyAI transcription (src/unnamed/part_001, lines
\* 673-1141): the capture path of Part III; onstop creates a clip and starts
\* its transcription in the background.  Its state is the record av; it
\* shares the clock.  The cobra callback reads the isProcessing of the mount
\* render, which is false, so that state variable decides nothing and is left
\* out.

\* part_001:682 (0.2, in hundredths)
AV_VOICE_PROBABILITY_THRESHOLD == 20
\* part_001:683-684 (milliseconds)
AV_SILENCE_DURATION_THRESHOLD == 1500
AV_MIN_RECORDING_DURATION == 500

TickAssembly == AV_SILENCE_DURATION_THRESHOLD
AvProbs == {AV_VOICE_PROBABILITY_THRESHOLD - 1, AV_VOICE_PROBABILITY_THRESHOLD}
\* transcripts.transcribe resolves with a text, resolves with status "error",
\* or rejects
TranscribeOutcomes == {"ok", "statusError", "rejects"}
NoText == "none"

\* the mount effect that creates the client (part_001:716-722).  hasKey:
\* whether process.env.NEXT_PUBLIC_ASSEMBLY_API_KEY is set (680).
AvClientEffect(hasKey) ==
  /\ ~av.clientEffectRun
  /\ av' = [av EXCEPT !.clientEffectRun = TRUE, !.hasKey = hasKey,
                      !.assemblyClientRef = hasKey]
  /\ UNCHANGED <<now, initRun, isInitialized, error, streamRef, cobraRef,
                 audioContextRef, isListeningRef, pendingStart, pendingStop,
                 isRecordingRef, mediaRecorderRef, recState, stopTask, chunksRef,
                 delivered, recordingStartTimeRef, silenceTimers, silenceTimeoutRef,
                 maxTimer, recordingTimeoutRef, nRec, jobs, processingQueueRef,
                 transcription, isProcessing, released, voicedPastMin, debounced,
                 stopBy, stopAttempts, onstops, pg_initRun, pg_isInitialized, pg_error,
                 pg_streamRef, pg_cobraRef, pg_isListeningRef, pg_pendingStart,
                 pg_pendingStop, pg_isRecordingRef, pg_mediaRecorderRef, pg_recState,
                 pg_stopTask, pg_chunksRef, pg_recordingStartTimeRef, pg_silenceTimers,
                 pg_silenceTimeoutRef, pg_nRec, pg_transcription, pg_isProcessing,
                 pg_onstop, vd_initRun, vd_isInitialized, vd_error, vd_streamRef,
                 vd_cobraRef, vd_isListeningRef, vd_pendingStart, vd_pendingStop,
                 vd_isRecordingRef, vd_mediaRecorderRef, vd_recState, vd_stopTask,
                 vd_audioChunksRef, vd_recordingStartTimeRef, vd_silenceTimers,
                 vd_silenceTimeoutRef, vd_nRec, vd_startTime, vd_audioClips,
                 vd_latestClip, ix_isListening, ix_isRecording, ix_audioPackets,
                 ix_memoListening, ix_pendingStart, ix_vads, ix_streamRef,
                 ix_mediaRecorderRef, ix_recState, ix_stopTask, ix_nRec,
                 ix_recListening, ix_audioChunksRef, ix_currentRecordingStartTime,
                 ix_silenceStartRef, ix_isLongPauseRef, ix_pauseTimers,
                 ix_pauseTimeoutRef, sv_clients, sv_sock, sv_isAlive, sv_buffer,
                 sv_timers, sv_timeoutVar, sv_requests, sv_out, sv_nextSweep,
                 sv_nAudio, sv_pinged, sv_swept, sd>>

\* initializeVoiceDetector (part_001:822-862), run once by the second mount
\* effect; PICOVOICE_ACCESS_KEY is taken to be set
AvInitializeVoiceDetector(outcome) ==
  /\ av.clientEffectRun /\ ~av.initRun
  /\ av' = [av EXCEPT !.initRun = TRUE,
                      !.streamRef = (outcome # "micDenied"),
                      !.cobraRef = (outcome = "ok"),
                      !.isInitialized = (outcome = "ok"),
                      !.error = IF outcome = "ok" THEN NoError ELSE outcome]
  /\ UNCHANGED <<now, initRun, isInitialized, error, streamRef, cobraRef,
                 audioContextRef, isListeningRef, pendingStart, pendingStop,
                 isRecordingRef, mediaRecorderRef, recState, stopTask, chunksRef,
                 delivered, recordingStartTimeRef, silenceTimers, silenceTimeoutRef,
                 maxTimer, recordingTimeoutRef, nRec, jobs, processingQueueRef,
                 transcription, isProcessing, released, voicedPastMin, debounced,
                 stopBy, stopAttempts, onstops, pg_initRun, pg_isInitialized, pg_error,
                 pg_streamRef, pg_cobraRef, pg_isListeningRef, pg_pendingStart,
                 pg_pendingStop, pg_isRecordingRef, pg_mediaRecorderRef, pg_recState,
                 pg_stopTask, pg_chunksRef, pg_recordingStartTimeRef, pg_silenceTimers,
                 pg_silenceTimeoutRef, pg_nRec, pg_transcription, pg_isProcessing,
                 pg_onstop, vd_initRun, vd_isInitialized, vd_error, vd_streamRef,
                 vd_cobraRef, vd_isListeningRef, vd_pendingStart, vd_pendingStop,
                 vd_isRecordingRef, vd_mediaRecorderRef, vd_recState, vd_stopTask,
                 vd_audioChunksRef, vd_recordingStartTimeRef, vd_silenceTimers,
                 vd_silenceTimeoutRef, vd_nRec, vd_startTime, vd_audioClips,
                 vd_latestClip, ix_isListening, ix_isRecording, ix_audioPackets,
                 ix_memoListening, ix_pendingStart, ix_vads, ix_streamRef,
                 ix_mediaRecorderRef, ix_recState, ix_stopTask, ix_nRec,
                 ix_recListening, ix_audioChunksRef, ix_currentRecordingStartTime,
                 ix_silenceStartRef, ix_isLongPauseRef, ix_pauseTimers,
                 ix_pauseTimeoutRef, sv_clients, sv_sock, sv_isAlive, sv_buffer,
                 sv_timers, sv_timeoutVar, sv_requests, sv_out, sv_nextSweep,
                 sv_nAudio, sv_pinged, sv_swept, sd>>

\* updateClipTranscription (part_001:724-736) applied to the state s
AvUpdateClipTranscription(s, clipId, isTranscribing, text, errorText) ==
  LET upd(clip) ==
        IF clip.id = clipId
          THEN [clip EXCEPT !.isTranscribing = isTranscribing,
                            !.transcription = IF text # NoText THEN text ELSE @,
                            !.transcriptionError = IF errorText # NoError
                                                     THEN errorText ELSE @]
          ELSE clip
  IN [s EXCEPT !.audioClips = [k \in 1..Len(@) |-> upd(@[k])],
               !.latestClip = [k \in 1..Len(@) |-> upd(@[k])]]

\* transcribeAudio up to its await (part_001:738-761) applied to the state s.
\* The configuration check throws before the try block: the promise of the
\* async function rejects, and the caller has discarded it with `void`.
AvTranscribeAudioCall(s, clipId) ==
  IF ~s.hasKey \/ ~s.assemblyClientRef
    THEN [s EXCEPT !.unhandled = @ \cup {clipId}]
    ELSE [AvUpdateClipTranscription(s, clipId, TRUE, NoText, NoError)
            EXCEPT !.inFlight = @ \cup {clipId}]

\* transcribeAudio after transcripts.transcribe settled (part_001:761-789)
AvTranscribeAudioSettles(clipId, outcome) ==
  /\ clipId \in av.inFlight
  /\ LET s == [av EXCEPT !.inFlight = @ \ {clipId}]
     IN av' = CASE outcome = "ok" ->
                     AvUpdateClipTranscription(s, clipId, FALSE, "text", NoError)
                [] outcome = "statusError" ->
                     AvUpdateClipTranscription(s, clipId, FALSE, NoText, "transcript.error")
                [] OTHER ->
                     AvUpdateClipTranscription(s, clipId, FALSE, NoText, "Transcription failed")
  /\ UNCHANGED <<now, initRun, isInitialized, error, streamRef, cobraRef,
                 audioContextRef, isListeningRef, pendingStart, pendingStop,
                 isRecordingRef, mediaRecorderRef, recState, stopTask, chunksRef,
                 delivered, recordingStartTimeRef, silenceTimers, silenceTimeoutRef,
                 maxTimer, recordingTimeoutRef, nRec, jobs, processingQueueRef,
                 transcription, isProcessing, released, voicedPastMin, debounced,
                 stopBy, stopAttempts, onstops, pg_initRun, pg_isInitialized, pg_error,
                 pg_streamRef, pg_cobraRef, pg_isListeningRef, pg_pendingStart,
                 pg_pendingStop, pg_isRecordingRef, pg_mediaRecorderRef, pg_recState,
                 pg_stopTask, pg_chunksRef, pg_recordingStartTimeRef, pg_silenceTimers,
                 pg_silenceTimeoutRef, pg_nRec, pg_transcription, pg_isProcessing,
                 pg_onstop, vd_initRun, vd_isInitialized, vd_error, vd_streamRef,
                 vd_cobraRef, vd_isListeningRef, vd_pendingStart, vd_pendingStop,
                 vd_isRecordingRef, vd_mediaRecorderRef, vd_recState, vd_stopTask,
                 vd_audioChunksRef, vd_recordingStartTimeRef, vd_silenceTimers,
                 vd_silenceTimeoutRef, vd_nRec, vd_startTime, vd_audioClips,
                 vd_latestClip, ix_isListening, ix_isRecording, ix_audioPackets,
                 ix_memoListening, ix_pendingStart, ix_vads, ix_streamRef,
                 ix_mediaRecorderRef, ix_recState, ix_stopTask, ix_nRec,
                 ix_recListening, ix_audioChunksRef, ix_currentRecordingStartTime,
                 ix_silenceStartRef, ix_isLongPauseRef, ix_pauseTimers,
                 ix_pauseTimeoutRef, sv_clients, sv_sock, sv_isAlive, sv_buffer,
                 sv_timers, sv_timeoutVar, sv_requests, sv_out, sv_nextSweep,
                 sv_nAudio, sv_pinged, sv_swept, sd>>

\* stopRecording (part_001:944-954) applied to the state s
AvStopRecording(s) ==
  LET m == s.mediaRecorderRef
  IN IF m # 0 /\ s.recState[m] = "recording"
       THEN [s EXCEPT !.recState[m] = "inactive", !.stopTask[m] = @ + 1]
       ELSE s

\* startRecording (part_001:864-942) applied to the state s; it has no
\* await, so it runs within its caller.  outcome "ctorThrows": the MIME type
\* is unsupported or the MediaRecorder constructor throws.
AvStartRecording(s, outcome) ==
  IF ~s.streamRef \/ (s.mediaRecorderRef # 0 /\ s.recState[s.mediaRecorderRef] = "recording")
    THEN s
    ELSE IF outcome = "ctorThrows"
      THEN [s EXCEPT !.error = "Failed to start recording"]
      ELSE LET t == [s EXCEPT !.nRec = @ + 1,
                              !.mediaRecorderRef = s.nRec + 1,
                              !.audioChunksRef = <<>>,
                              !.startTime[s.nRec + 1] = DateNow,
                              !.recordingStartTimeRef = DateNow]
           IN IF outcome = "startThrows"
                THEN [t EXCEPT !.recState[s.nRec + 1] = "inactive",
                               !.error = "Failed to start recording"]
                ELSE [t EXCEPT !.recState[s.nRec + 1] = "recording",
                               !.isRecordingRef = TRUE]

\* handleVoiceDetected (part_001:792-811) applied to the state s
AvHandleVoiceDetected(s, outcome) ==
  LET t == [s EXCEPT !.silenceTimers = IF s.silenceTimeoutRef # Null
                                         THEN @ \ {s.silenceTimeoutRef} ELSE @,
                     !.silenceTimeoutRef = Null]
  IN IF ~s.isRecordingRef /\ s.isListeningRef /\ s.streamRef
       THEN AvStartRecording(t, outcome)
       ELSE t

\* handleSilenceDetected (part_001:813-820) applied to the state s
AvHandleSilenceDetected(s) ==
  IF s.silenceTimeoutRef = Null /\ s.isRecordingRef
    THEN [s EXCEPT !.silenceTimers = @ \cup {now + AV_SILENCE_DURATION_THRESHOLD},
                   !.silenceTimeoutRef = now + AV_SILENCE_DURATION_THRESHOLD]
    ELSE s

\* handleVoiceProbability, the cobra callback (part_001:838-844)
AvHandleVoiceProbability(probability, outcome) ==
  /\ av.cobraRef
  /\ av' = IF probability >= AV_VOICE_PROBABILITY_THRESHOLD
             THEN AvHandleVoiceDetected(av, outcome)
             ELSE AvHandleSilenceDetected(av)
  /\ av'.nRec <= MaxSessions
  /\ UNCHANGED <<now, initRun, isInitialized, error, streamRef, cobraRef,
                 audioContextRef, isListeningRef, pendingStart, pendingStop,
                 isRecordingRef, mediaRecorderRef, recState, stopTask, chunksRef,
                 delivered, recordingStartTimeRef, silenceTimers, silenceTimeoutRef,
                 maxTimer, recordingTimeoutRef, nRec, jobs, processingQueueRef,
                 transcription, isProcessing, released, voicedPastMin, debounced,
                 stopBy, stopAttempts, onstops, pg_initRun, pg_isInitialized, pg_error,
                 pg_streamRef, pg_cobraRef, pg_isListeningRef, pg_pendingStart,
                 pg_pendingStop, pg_isRecordingRef, pg_mediaRecorderRef, pg_recState,
                 pg_stopTask, pg_chunksRef, pg_recordingStartTimeRef, pg_silenceTimers,
                 pg_silenceTimeoutRef, pg_nRec, pg_transcription, pg_isProcessing,
                 pg_onstop, vd_initRun, vd_isInitialized, vd_error, vd_streamRef,
                 vd_cobraRef, vd_isListeningRef, vd_pendingStart, vd_pendingStop,
                 vd_isRecordingRef, vd_mediaRecorderRef, vd_recState, vd_stopTask,
                 vd_audioChunksRef, vd_recordingStartTimeRef, vd_silenceTimers,
                 vd_silenceTimeoutRef, vd_nRec, vd_startTime, vd_audioClips,
                 vd_latestClip, ix_isListening, ix_isRecording, ix_audioPackets,
                 ix_memoListening, ix_pendingStart, ix_vads, ix_streamRef,
                 ix_mediaRecorderRef, ix_recState, ix_stopTask, ix_nRec,
                 ix_recListening, ix_audioChunksRef, ix_currentRecordingStartTime,
                 ix_silenceStartRef, ix_isLongPauseRef, ix_pauseTimers,
                 ix_pauseTimeoutRef, sv_clients, sv_sock, sv_isAlive, sv_buffer,
                 sv_timers, sv_timeoutVar, sv_requests, sv_out, sv_nextSweep,
                 sv_nAudio, sv_pinged, sv_swept, sd>>

\* the silence timer's callback (part_001:815-818)
AvSilenceTimeout(d) ==
  /\ d \in av.silenceTimers
  /\ now >= d
  /\ av' = [AvStopRecording([av EXCEPT !.silenceTimers = @ \ {d}])
              EXCEPT !.silenceTimeoutRef = Null]
  /\ UNCHANGED <<now, initRun, isInitialized, error, streamRef, cobraRef,
                 audioContextRef, isListeningRef, pendingStart, pendingStop,
                 isRecordingRef, mediaRecorderRef, recState, stopTask, chunksRef,
                 delivered, recordingStartTimeRef, silenceTimers, silenceTimeoutRef,
                 maxTimer, recordingTimeoutRef, nRec, jobs, processingQueueRef,
                 transcription, isProcessing, released, voicedPastMin, debounced,
                 stopBy, stopAttempts, onstops, pg_initRun, pg_isInitialized, pg_error,
                 pg_streamRef, pg_cobraRef, pg_isListeningRef, pg_pendingStart,
                 pg_pendingStop, pg_isRecordingRef, pg_mediaRecorderRef, pg_recState,
                 pg_stopTask, pg_chunksRef, pg_recordingStartTimeRef, pg_silenceTimers,
                 pg_silenceTimeoutRef, pg_nRec, pg_transcription, pg_isProcessing,
                 pg_onstop, vd_initRun, vd_isInitialized, vd_error, vd_streamRef,
                 vd_cobraRef, vd_isListeningRef, vd_pendingStart, vd_pendingStop,
                 vd_isRecordingRef, vd_mediaRecorderRef, vd_recState, vd_stopTask,
                 vd_audioChunksRef, vd_recordingStartTimeRef, vd_silenceTimers,
                 vd_silenceTimeoutRef, vd_nRec, vd_startTime, vd_audioClips,
                 vd_latestClip, ix_isListening, ix_isRecording, ix_audioPackets,
                 ix_memoListening, ix_pendingStart, ix_vads, ix_streamRef,
                 ix_mediaRecorderRef, ix_recState, ix_stopTask, ix_nRec,
                 ix_recListening, ix_audioChunksRef, ix_currentRecordingStartTime,
                 ix_silenceStartRef, ix_isLongPauseRef, ix_pauseTimers,
                 ix_pauseTimeoutRef, sv_clients, sv_sock, sv_isAlive, sv_buffer,
                 sv_timers, sv_timeoutVar, sv_requests, sv_out, sv_nextSweep,
                 sv_nAudio, sv_pinged, sv_swept, sd>>

\* mediaRecorder.ondataavailable for a timeslice chunk (part_001:888-892)
AvOnDataAvailable(size) ==
  /\ av.mediaRecorderRef # 0
  /\ av.recState[av.mediaRecorderRef] = "recording"
  /\ Len(av.audioChunksRef) < MaxChunks
  /\ av' = IF size > 0
             THEN [av EXCEPT !.audioChunksRef = Append(@, av.mediaRecorderRef)]
             ELSE av
  /\ UNCHANGED <<now, initRun, isInitialized, error, streamRef, cobraRef,
                 audioContextRef, isListeningRef, pendingStart, pendingStop,
                 isRecordingRef, mediaRecorderRef, recState, stopTask, chunksRef,
                 delivered, recordingStartTimeRef, silenceTimers, silenceTimeoutRef,
                 maxTimer, recordingTimeoutRef, nRec, jobs, processingQueueRef,
                 transcription, isProcessing, released, voicedPastMin, debounced,
                 stopBy, stopAttempts, onstops, pg_initRun, pg_isInitialized, pg_error,
                 pg_streamRef, pg_cobraRef, pg_isListeningRef, pg_pendingStart,
                 pg_pendingStop, pg_isRecordingRef, pg_mediaRecorderRef, pg_recState,
                 pg_stopTask, pg_chunksRef, pg_recordingStartTimeRef, pg_silenceTimers,
                 pg_silenceTimeoutRef, pg_nRec, pg_transcription, pg_isProcessing,
                 pg_onstop, vd_initRun, vd_isInitialized, vd_error, vd_streamRef,
                 vd_cobraRef, vd_isListeningRef, vd_pendingStart, vd_pendingStop,
                 vd_isRecordingRef, vd_mediaRecorderRef, vd_recState, vd_stopTask,
                 vd_audioChunksRef, vd_recordingStartTimeRef, vd_silenceTimers,
                 vd_silenceTimeoutRef, vd_nRec, vd_startTime, vd_audioClips,
                 vd_latestClip, ix_isListening, ix_isRecording, ix_audioPackets,
                 ix_memoListening, ix_pendingStart, ix_vads, ix_streamRef,
                 ix_mediaRecorderRef, ix_recState, ix_stopTask, ix_nRec,
                 ix_recListening, ix_audioChunksRef, ix_currentRecordingStartTime,
                 ix_silenceStartRef, ix_isLongPauseRef, ix_pauseTimers,
                 ix_pauseTimeoutRef, sv_clients, sv_sock, sv_isAlive, sv_buffer,
                 sv_timers, sv_timeoutVar, sv_requests, sv_out, sv_nextSweep,
                 sv_nAudio, sv_pinged, sv_swept, sd>>

\* The task MediaRecorder.stop() queued for recorder r: dataavailable
\* (part_001:888-892), then stop (mediaRecorder.onstop, 894-932), which runs
\* transcribeAudio to its await.  duration is kept in milliseconds.
AvRecorderStopTask(r, size) ==
  LET chunks == IF size > 0 THEN Append(av.audioChunksRef, r) ELSE av.audioChunksRef
      duration == IF av.startTime[r] # 0 THEN DateNow - av.startTime[r] ELSE 0
      newClip == [id |-> DateNow, session |-> r, duration |-> duration,
                  isTranscribing |-> TRUE, transcription |-> NoText,
                  transcriptionError |-> NoError]
      s == [av EXCEPT !.stopTask[r] = @ - 1]
      t == IF duration >= AV_MIN_RECORDING_DURATION /\ Len(chunks) > 0
             THEN AvTranscribeAudioCall(
                    [s EXCEPT !.latestClip = <<newClip>>,
                              !.audioClips = <<newClip>> \o @],
                    newClip.id)
             ELSE s
  IN /\ av.stopTask[r] > 0
     /\ av' = [t EXCEPT !.audioChunksRef = <<>>,
                        !.isRecordingRef = FALSE,
                        !.recordingStartTimeRef = Null]
     /\ UNCHANGED <<now, initRun, isInitialized, error, streamRef, cobraRef,
                    audioContextRef, isListeningRef, pendingStart, pendingStop,
                    isRecordingRef, mediaRecorderRef, recState, stopTask, chunksRef,
                    delivered, recordingStartTimeRef, silenceTimers, silenceTimeoutRef,
                    maxTimer, recordingTimeoutRef, nRec, jobs, processingQueueRef,
                    transcription, isProcessing, released, voicedPastMin, debounced,
                    stopBy, stopAttempts, onstops, pg_initRun, pg_isInitialized,
                    pg_error, pg_streamRef, pg_cobraRef, pg_isListeningRef,
                    pg_pendingStart, pg_pendingStop, pg_isRecordingRef,
                    pg_mediaRecorderRef, pg_recState, pg_stopTask, pg_chunksRef,
                    pg_recordingStartTimeRef, pg_silenceTimers, pg_silenceTimeoutRef,
                    pg_nRec, pg_transcription, pg_isProcessing, pg_onstop, vd_initRun,
                    vd_isInitialized, vd_error, vd_streamRef, vd_cobraRef,
                    vd_isListeningRef, vd_pendingStart, vd_pendingStop,
                    vd_isRecordingRef, vd_mediaRecorderRef, vd_recState, vd_stopTask,
                    vd_audioChunksRef, vd_recordingStartTimeRef, vd_silenceTimers,
                    vd_silenceTimeoutRef, vd_nRec, vd_startTime, vd_audioClips,
                    vd_latestClip, ix_isListening, ix_isRecording, ix_audioPackets,
                    ix_memoListening, ix_pendingStart, ix_vads, ix_streamRef,
                    ix_mediaRecorderRef, ix_recState, ix_stopTask, ix_nRec,
                    ix_recListening, ix_audioChunksRef, ix_currentRecordingStartTime,
                    ix_silenceStartRef, ix_isLongPauseRef, ix_pauseTimers,
                    ix_pauseTimeoutRef, sv_clients, sv_sock, sv_isAlive, sv_buffer,
                    sv_timers, sv_timeoutVar, sv_requests, sv_out, sv_nextSweep,
                    sv_nAudio, sv_pinged, sv_swept, sd>>

\* startListening up to its await (part_001:956-960)
AvStartListeningCall ==
  /\ av.isInitialized /\ av.cobraRef
  /\ av.pendingStart < MaxPending
  /\ av' = [av EXCEPT !.pendingStart = @ + 1]
  /\ UNCHANGED <<now, initRun, isInitialized, error, streamRef, cobraRef,
                 audioContextRef, isListeningRef, pendingStart, pendingStop,
                 isRecordingRef, mediaRecorderRef, recState, stopTask, chunksRef,
                 delivered, recordingStartTimeRef, silenceTimers, silenceTimeoutRef,
                 maxTimer, recordingTimeoutRef, nRec, jobs, processingQueueRef,
                 transcription, isProcessing, released, voicedPastMin, debounced,
                 stopBy, stopAttempts, onstops, pg_initRun, pg_isInitialized, pg_error,
                 pg_streamRef, pg_cobraRef, pg_isListeningRef, pg_pendingStart,
                 pg_pendingStop, pg_isRecordingRef, pg_mediaRecorderRef, pg_recState,
                 pg_stopTask, pg_chunksRef, pg_recordingStartTimeRef, pg_silenceTimers,
                 pg_silenceTimeoutRef, pg_nRec, pg_transcription, pg_isProcessing,
                 pg_onstop, vd_initRun, vd_isInitialized, vd_error, vd_streamRef,
                 vd_cobraRef, vd_isListeningRef, vd_pendingStart, vd_pendingStop,
                 vd_isRecordingRef, vd_mediaRecorderRef, vd_recState, vd_stopTask,
                 vd_audioChunksRef, vd_recordingStartTimeRef, vd_silenceTimers,
                 vd_silenceTimeoutRef, vd_nRec, vd_startTime, vd_audioClips,
                 vd_latestClip, ix_isListening, ix_isRecording, ix_audioPackets,
                 ix_memoListening, ix_pendingStart, ix_vads, ix_streamRef,
                 ix_mediaRecorderRef, ix_recState, ix_stopTask, ix_nRec,
                 ix_recListening, ix_audioChunksRef, ix_currentRecordingStartTime,
                 ix_silenceStartRef, ix_isLongPauseRef, ix_pauseTimers,
                 ix_pauseTimeoutRef, sv_clients, sv_sock, sv_isAlive, sv_buffer,
                 sv_timers, sv_timeoutVar, sv_requests, sv_out, sv_nextSweep,
                 sv_nAudio, sv_pinged, sv_swept, sd>>

\* startListening after WebVoiceProcessor.subscribe settled (part_001:960-967)
AvStartListeningResume(subscribed) ==
  /\ av.pendingStart > 0
  /\ av' = IF subscribed
             THEN [av EXCEPT !.pendingStart = @ - 1, !.isListeningRef = TRUE,
                             !.error = NoError]
             ELSE [av EXCEPT !.pendingStart = @ - 1,
                             !.error = "Failed to start listening"]
  /\ UNCHANGED <<now, initRun, isInitialized, error, streamRef, cobraRef,
                 audioContextRef, isListeningRef, pendingStart, pendingStop,
                 isRecordingRef, mediaRecorderRef, recState, stopTask, chunksRef,
                 delivered, recordingStartTimeRef, silenceTimers, silenceTimeoutRef,
                 maxTimer, recordingTimeoutRef, nRec, jobs, processingQueueRef,
                 transcription, isProcessing, released, voicedPastMin, debounced,
                 stopBy, stopAttempts, onstops, pg_initRun, pg_isInitialized, pg_error,
                 pg_streamRef, pg_cobraRef, pg_isListeningRef, pg_pendingStart,
                 pg_pendingStop, pg_isRecordingRef, pg_mediaRecorderRef, pg_recState,
                 pg_stopTask, pg_chunksRef, pg_recordingStartTimeRef, pg_silenceTimers,
                 pg_silenceTimeoutRef, pg_nRec, pg_transcription, pg_isProcessing,
                 pg_onstop, vd_initRun, vd_isInitialized, vd_error, vd_streamRef,
                 vd_cobraRef, vd_isListeningRef, vd_pendingStart, vd_pendingStop,
                 vd_isRecordingRef, vd_mediaRecorderRef, vd_recState, vd_stopTask,
                 vd_audioChunksRef, vd_recordingStartTimeRef, vd_silenceTimers,
                 vd_silenceTimeoutRef, vd_nRec, vd_startTime, vd_audioClips,
                 vd_latestClip, ix_isListening, ix_isRecording, ix_audioPackets,
                 ix_memoListening, ix_pendingStart, ix_vads, ix_streamRef,
                 ix_mediaRecorderRef, ix_recState, ix_stopTask, ix_nRec,
                 ix_recListening, ix_audioChunksRef, ix_currentRecordingStartTime,
                 ix_silenceStartRef, ix_isLongPauseRef, ix_pauseTimers,
                 ix_pauseTimeoutRef, sv_clients, sv_sock, sv_isAlive, sv_buffer,
                 sv_timers, sv_timeoutVar, sv_requests, sv_out, sv_nextSweep,
                 sv_nAudio, sv_pinged, sv_swept, sd>>

\* stopListening up to its await (part_001:970-974)
AvStopListeningCall ==
  /\ av.isListeningRef /\ av.cobraRef
  /\ av.pendingStop < MaxPending
  /\ av' = [av EXCEPT !.pendingStop = @ + 1]
  /\ UNCHANGED <<now, initRun, isInitialized, error, streamRef, cobraRef,
                 audioContextRef, isListeningRef, pendingStart, pendingStop,
                 isRecordingRef, mediaRecorderRef, recState, stopTask, chunksRef,
                 delivered, recordingStartTimeRef, silenceTimers, silenceTimeoutRef,
                 maxTimer, recordingTimeoutRef, nRec, jobs, processingQueueRef,
                 transcription, isProcessing, released, voicedPastMin, debounced,
                 stopBy, stopAttempts, onstops, pg_initRun, pg_isInitialized, pg_error,
                 pg_streamRef, pg_cobraRef, pg_isListeningRef, pg_pendingStart,
                 pg_pendingStop, pg_isRecordingRef, pg_mediaRecorderRef, pg_recState,
                 pg_stopTask, pg_chunksRef, pg_recordingStartTimeRef, pg_silenceTimers,
                 pg_silenceTimeoutRef, pg_nRec, pg_transcription, pg_isProcessing,
                 pg_onstop, vd_initRun, vd_isInitialized, vd_error, vd_streamRef,
                 vd_cobraRef, vd_isListeningRef, vd_pendingStart, vd_pendingStop,
                 vd_isRecordingRef, vd_mediaRecorderRef, vd_recState, vd_stopTask,
                 vd_audioChunksRef, vd_recordingStartTimeRef, vd_silenceTimers,
                 vd_silenceTimeoutRef, vd_nRec, vd_startTime, vd_audioClips,
                 vd_latestClip, ix_isListening, ix_isRecording, ix_audioPackets,
                 ix_memoListening, ix_pendingStart, ix_vads, ix_streamRef,
                 ix_mediaRecorderRef, ix_recState, ix_stopTask, ix_nRec,
                 ix_recListening, ix_audioChunksRef, ix_currentRecordingStartTime,
                 ix_silenceStartRef, ix_isLongPauseRef, ix_pauseTimers,
                 ix_pauseTimeoutRef, sv_clients, sv_sock, sv_isAlive, sv_buffer,
                 sv_timers, sv_timeoutVar, sv_requests, sv_out, sv_nextSweep,
                 sv_nAudio, sv_pinged, sv_swept, sd>>

\* stopListening after WebVoiceProcessor.unsubscribe settled (part_001:974-984)
AvStopListeningResume(unsubscribed) ==
  /\ av.pendingStop > 0
  /\ LET s == [av EXCEPT !.pendingStop = @ - 1]
     IN av' = IF unsubscribed
                THEN [(IF av.isRecordingRef THEN AvStopRecording(s) ELSE s)
                        EXCEPT !.isListeningRef = FALSE, !.error = NoError]
                ELSE [s EXCEPT !.error = "Failed to stop listening"]
  /\ UNCHANGED <<now, initRun, isInitialized, error, streamRef, cobraRef,
                 audioContextRef, isListeningRef, pendingStart, pendingStop,
                 isRecordingRef, mediaRecorderRef, recState, stopTask, chunksRef,
                 delivered, recordingStartTimeRef, silenceTimers, silenceTimeoutRef,
                 maxTimer, recordingTimeoutRef, nRec, jobs, processingQueueRef,
                 transcription, isProcessing, released, voicedPastMin, debounced,
                 stopBy, stopAttempts, onstops, pg_initRun, pg_isInitialized, pg_error,
                 pg_streamRef, pg_cobraRef, pg_isListeningRef, pg_pendingStart,
                 pg_pendingStop, pg_isRecordingRef, pg_mediaRecorderRef, pg_recState,
                 pg_stopTask, pg_chunksRef, pg_recordingStartTimeRef, pg_silenceTimers,
                 pg_silenceTimeoutRef, pg_nRec, pg_transcription, pg_isProcessing,
                 pg_onstop, vd_initRun, vd_isInitialized, vd_error, vd_streamRef,
                 vd_cobraRef, vd_isListeningRef, vd_pendingStart, vd_pendingStop,
                 vd_isRecordingRef, vd_mediaRecorderRef, vd_recState, vd_stopTask,
                 vd_audioChunksRef, vd_recordingStartTimeRef, vd_silenceTimers,
                 vd_silenceTimeoutRef, vd_nRec, vd_startTime, vd_audioClips,
                 vd_latestClip, ix_isListening, ix_isRecording, ix_audioPackets,
                 ix_memoListening, ix_pendingStart, ix_vads, ix_streamRef,
                 ix_mediaRecorderRef, ix_recState, ix_stopTask, ix_nRec,
                 ix_recListening, ix_audioChunksRef, ix_currentRecordingStartTime,
                 ix_silenceStartRef, ix_isLongPauseRef, ix_pauseTimers,
                 ix_pauseTimeoutRef, sv_clients, sv_sock, sv_isAlive, sv_buffer,
                 sv_timers, sv_timeoutVar, sv_requests, sv_out, sv_nextSweep,
                 sv_nAudio, sv_pinged, sv_swept, sd>>
\* ------------------------------------------------------------ specifications
\* Capture and dispatcher together over a horizon shorter than
\* MAX_RECORDING_DURATION, in which no max-duration timer comes due (SpecLong
\* covers them).  The recorder may fail to start; subscribe, unsubscribe and
\* the transcription requests succeed (their failures are exercised by
\* SpecQueue).
Next ==
  \/ \E o \in InitOutcomes : InitializeVoiceDetector(o)
  \/ \E p \in Probs, o \in StartOutcomes : HandleVoiceProbability(p, o)
  \/ \E d \in silenceTimers : SilenceTimeout(d)
  \/ \E r \in Recs, size \in {0, 1} : OnDataAvailable(r, size)
  \/ \E r \in Recs, size \in {0, 1} : RecorderStopTask(r, size)
  \/ \E j \in 1..Len(jobs) : NewProcessingBegin(j, TRUE)
  \/ \E j \in 1..Len(jobs) : NewProcessingEnd(j, "ok")
  \/ StartListeningCall
  \/ StartListeningResume(TRUE)
  \/ StopListeningCall
  \/ StopListeningResume(TRUE)
  \/ Tick(TickLong, MaxTime)

Spec == Init /\ [][Next]_vars

\* The capture path over a horizon longer than MAX_RECORDING_DURATION.  The
\* processing chain reads and writes only jobs, transcription, isProcessing
\* and error, none of which a capture handler reads; here the submitted clips
\* stay queued, the collaborators raise no fault, and the clock advances by
\* TickLong.
NextLong ==
  \/ InitializeVoiceDetector("ok")
  \/ \E p \in Probs : HandleVoiceProbability(p, "ok")
  \/ \E d \in silenceTimers : SilenceTimeout(d)
  \/ \E r \in Recs : RecordingTimeout(r)
  \/ \E r \in Recs, size \in {0, 1} : OnDataAvailable(r, size)
  \/ \E r \in Recs, size \in {0, 1} : RecorderStopTask(r, size)
  \/ StartListeningCall
  \/ StartListeningResume(TRUE)
  \/ StopListeningCall
  \/ StopListeningResume(TRUE)
  \/ Tick(TickLong, MaxTimeLong)

SpecLong == Init /\ [][NextLong]_vars

\* The capture path over two silence periods, in which no max-duration timer
\* comes due, with the event loop's guarantee that a queued recorder task
\* runs.
NextStop ==
  \/ InitializeVoiceDetector("ok")
  \/ \E p \in Probs : HandleVoiceProbability(p, "ok")
  \/ \E d \in silenceTimers : SilenceTimeout(d)
  \/ \E r \in Recs, size \in {0, 1} : OnDataAvailable(r, size)
  \/ \E r \in Recs, size \in {0, 1} : RecorderStopTask(r, size)
  \/ StartListeningCall
  \/ StartListeningResume(TRUE)
  \/ StopListeningCall
  \/ StopListeningResume(TRUE)
  \/ Tick(TickLong, MaxTimeStop)

SpecStop == Init /\ [][NextStop]_vars /\ WF_vars(SessionFinalized)

\* The dispatcher alone, after a successful initialization: clips are handed
\* over at any moment and every request may fail in every way.
InitQueue ==
  /\ PageInit
  /\ DetectorInit
  /\ IndexInit
  /\ ServerInit
  /\ ClipDetectorInit
  /\ AssemblyInit
  /\ now = 0
  /\ initRun = TRUE
  /\ isInitialized = TRUE
  /\ error = NoError
  /\ streamRef = TRUE
  /\ cobraRef = TRUE
  /\ audioContextRef = TRUE
  /\ isListeningRef = FALSE
  /\ pendingStart = 0
  /\ pendingStop = 0
  /\ isRecordingRef = FALSE
  /\ mediaRecorderRef = 0
  /\ recState = [r \in Recs |-> "none"]
  /\ stopTask = [r \in Recs |-> 0]
  /\ chunksRef = <<>>
  /\ delivered = [r \in Recs |-> 0]
  /\ recordingStartTimeRef = Null
  /\ silenceTimers = {}
  /\ silenceTimeoutRef = Null
  /\ maxTimer = [r \in Recs |-> Null]
  /\ recordingTimeoutRef = 0
  /\ nRec = 0
  /\ jobs = <<>>
  /\ processingQueueRef = 0
  /\ transcription = <<>>
  /\ isProcessing = FALSE
  /\ released = FALSE
  /\ voicedPastMin = FALSE
  /\ debounced = FALSE
  /\ stopBy = "none"
  /\ stopAttempts = {}
  /\ onstops = [r \in Recs |-> 0]

NextQueue ==
  \/ SubmitClip
  \/ \E j \in 1..Len(jobs), ok \in BOOLEAN : NewProcessingBegin(j, ok)
  \/ \E j \in 1..Len(jobs), o \in FetchOutcomes : NewProcessingEnd(j, o)

SpecQueue == InitQueue /\ [][NextQueue]_vars


\* Part II over a horizon of one silence period: the recorder may fail to
\* start and a clip may fail to decode or to be transcribed; initialization,
\* subscribe and unsubscribe succeed.
NextPage ==
  \/ PageInitializeVoiceDetector("ok")
  \/ \E p \in PageProbs, o \in StartOutcomes : PageHandleVoiceProbability(p, o)
  \/ \E d \in pg_silenceTimers : PageSilenceTimeout(d)
  \/ \E r \in Recs, size \in {0, 1} : PageOnDataAvailable(r, size)
  \/ \E r \in Recs, size \in {0, 1} : PageRecorderStopTask(r, size)
  \/ \E r \in Recs, ok \in BOOLEAN : PageDecoded(r, ok)
  \/ \E r \in Recs, o \in FetchOutcomes : PageFetched(r, o)
  \/ PageStartListeningCall
  \/ PageStartListeningResume(TRUE)
  \/ PageStopListeningCall
  \/ PageStopListeningResume(TRUE)
  \/ Tick(TickPage, MaxTimePage)

SpecPage == Init /\ [][NextPage]_vars

\* The capture path with the unmount of the component.  After the cleanup the
\* cobra instance is released and the buttons are gone, so no sample arrives
\* and no call is made; timers, queued recorder tasks and suspended calls
\* still run.
NextRelease ==
  \/ InitializeVoiceDetector("ok")
  \/ ~released /\ \E p \in Probs : HandleVoiceProbability(p, "ok")
  \/ \E d \in silenceTimers : SilenceTimeout(d)
  \/ \E r \in Recs : RecordingTimeout(r)
  \/ \E r \in Recs, size \in {0, 1} : OnDataAvailable(r, size)
  \/ \E r \in Recs, size \in {0, 1} : RecorderStopTask(r, size)
  \/ ~released /\ StartListeningCall
  \/ StartListeningResume(TRUE)
  \/ ~released /\ StopListeningCall
  \/ StopListeningResume(TRUE)
  \/ \E ends \in BOOLEAN : Unmount(ends)
  \/ Tick(TickLong, MaxTimeLong)

SpecRelease == Init /\ [][NextRelease]_vars

\* The capture path fed one unbroken run of voiced samples: every sample is
\* at the threshold, so no silence timer is ever armed, and stopListening is
\* not called.
NextVoiced ==
  \/ InitializeVoiceDetector("ok")
  \/ HandleVoiceProbability(VOICE_PROBABILITY_THRESHOLD, "ok")
  \/ \E r \in Recs : RecordingTimeout(r)
  \/ \E r \in Recs, size \in {0, 1} : OnDataAvailable(r, size)
  \/ \E r \in Recs, size \in {0, 1} : RecorderStopTask(r, size)
  \/ StartListeningCall
  \/ StartListeningResume(TRUE)
  \/ Tick(TickLong, MaxTimeLong)

SpecVoiced == Init /\ [][NextVoiced]_vars

\* Part I and VoiceDetector side by side with every outcome of their
\* initialization; the later calls succeed.  The clock stands still: sessions
\* start on voiced samples and end through stopListening.
NextFault ==
  \/ \E o \in InitOutcomes : InitializeVoiceDetector(o)
  \/ HandleVoiceProbability(VOICE_PROBABILITY_THRESHOLD, "ok")
  \/ \E r \in Recs, size \in {0, 1} : RecorderStopTask(r, size)
  \/ StartListeningCall
  \/ StartListeningResume(TRUE)
  \/ StopListeningCall
  \/ StopListeningResume(TRUE)
  \/ \E o \in DetectorInitOutcomes : DetectorInitializeVoiceDetector(o)
  \/ DetectorHandleVoiceProbability(VD_VOICE_PROBABILITY_THRESHOLD, "ok")
  \/ \E r \in Recs, size \in {0, 1} : DetectorRecorderStopTask(r, size, TRUE)
  \/ DetectorStartListeningCall
  \/ DetectorStartListeningResume(TRUE)
  \/ DetectorStopListeningCall
  \/ DetectorStopListeningResume(TRUE)

SpecFault == Init /\ [][NextFault]_vars

\* Index alone over one pause period.
NextIndex ==
  \/ IndexStartListeningCall
  \/ \E granted \in BOOLEAN : IndexStartListeningResume(granted)
  \/ \E v \in 1..Len(ix_vads) : IndexOnVoiceStart(v)
  \/ \E v \in 1..Len(ix_vads) : IndexOnVoiceStop(v)
  \/ \E d \in ix_pauseTimers : IndexPauseTimeout(d)
  \/ \E r \in IndexRecs, size \in {0, 1} : IndexOnDataAvailable(r, size)
  \/ \E r \in IndexRecs, size \in {0, 1}, ends \in BOOLEAN : IndexRecorderStopTask(r, size, ends)
  \/ \E ends \in BOOLEAN : IndexStopListening(ends)
  \/ Tick(TickIndex, MaxTimeIndex)

SpecIndex == Init /\ [][NextIndex]_vars

\* The relay server's audio path over two quiet periods, before the first
\* liveness sweep.
NextRelay ==
  \/ \E c \in Conns : ServerConnection(c)
  \/ \E c \in Conns, len \in ChunkLens : ServerAudioMessage(c, len)
  \/ \E c \in Conns : \E d \in sv_timers[c] : ServerProcessingTimeout(c, d)
  \/ \E k \in 1..Len(sv_requests), ok \in BOOLEAN : ServerProcessAudioSettles(k, ok)
  \/ \E c \in Conns : ServerClose(c)
  \/ Tick(TickRelay, MaxTimeRelay)

SpecRelay == Init /\ [][NextRelay]_vars

\* The relay server's liveness sweep over two intervals, without audio.  Beside
\* pings the clients send messages the server cannot parse.
NextSweep ==
  \/ \E c \in Conns : ServerConnection(c)
  \/ \E c \in Conns : ServerPingMessage(c)
  \/ \E c \in Conns : ServerBadMessage(c)
  \/ \E c \in Conns : ServerClose(c)
  \/ ServerSweep
  \/ Tick(TickSweep, MaxTimeSweep)

SpecSweep == Init /\ [][NextSweep]_vars

\* The capture path under the hypothesis that no voiced sample arrives while
\* a silence timer is armed.  Samples arrive up to the horizon; past it the
\* clock still advances while a silence timer is pending, so that every armed
\* timer comes due.  Timers that are due fire, queued recorder tasks run and
\* time passes.
SilenceFires == \E d \in silenceTimers : SilenceTimeout(d)
QuietTick == Tick(TickLong, IF silenceTimers # {} THEN now + 1 ELSE MaxTimeStop)

NextQuiet ==
  \/ InitializeVoiceDetector("ok")
  \/ /\ now < MaxTimeStop /\ silenceTimers = {}
     /\ HandleVoiceProbability(VOICE_PROBABILITY_THRESHOLD, "ok")
  \/ /\ now < MaxTimeStop
     /\ HandleVoiceProbability(VOICE_PROBABILITY_THRESHOLD - 1, "ok")
  \/ SilenceFires
  \/ \E r \in Recs, size \in {0, 1} : OnDataAvailable(r, size)
  \/ \E r \in Recs, size \in {0, 1} : RecorderStopTask(r, size)
  \/ StartListeningCall
  \/ StartListeningResume(TRUE)
  \/ StopListeningCall
  \/ StopListeningResume(TRUE)
  \/ QuietTick

SpecQuiet ==
  /\ Init /\ [][NextQuiet]_vars
  /\ WF_vars(SilenceFires) /\ WF_vars(SessionFinalized) /\ WF_vars(QuietTick)

\* The three voice-probability components side by side, fed samples below,
\* at and above their thresholds.  The clock stands still; initialization,
\* subscribe and unsubscribe succeed, and sessions end through stopListening.
NextThreshold ==
  \/ InitializeVoiceDetector("ok")
  \/ \E p \in Probs : HandleVoiceProbability(p, "ok")
  \/ \E r \in Recs, size \in {0, 1} : RecorderStopTask(r, size)
  \/ StartListeningCall
  \/ StartListeningResume(TRUE)
  \/ StopListeningCall
  \/ StopListeningResume(TRUE)
  \/ DetectorInitializeVoiceDetector("ok")
  \/ \E p \in DetectorProbs : DetectorHandleVoiceProbability(p, "ok")
  \/ \E r \in Recs, size \in {0, 1} : DetectorRecorderStopTask(r, size, TRUE)
  \/ DetectorStartListeningCall
  \/ DetectorStartListeningResume(TRUE)
  \/ DetectorStopListeningCall
  \/ DetectorStopListeningResume(TRUE)
  \/ SdInitializeVoiceDetector("ok")
  \/ \E p \in SdProbs : SdHandleVoiceProbability(p, "ok")
  \/ SdStartListeningCall
  \/ SdStartListeningResume(TRUE)
  \/ SdStopListeningCall
  \/ SdStopListeningResume(TRUE)

SpecThreshold == Init /\ [][NextThreshold]_vars

\* The AssemblyAI VoiceDetector over two silence periods, with the key set or
\* unset and every outcome of a transcription request.  Initialization,
\* subscribe and unsubscribe succeed.  Due timers fire, queued recorder tasks
\* run and requests settle.
AvTimerFires == \E d \in av.silenceTimers : AvSilenceTimeout(d)
AvSessionFinalized == \E r \in Recs, size \in {0, 1} : AvRecorderStopTask(r, size)
AvRequestSettles ==
  \E id \in av.inFlight, o \in TranscribeOutcomes : AvTranscribeAudioSettles(id, o)

NextAssembly ==
  \/ \E hasKey \in BOOLEAN : AvClientEffect(hasKey)
  \/ AvInitializeVoiceDetector("ok")
  \/ \E p \in AvProbs : AvHandleVoiceProbability(p, "ok")
  \/ AvOnDataAvailable(1)
  \/ AvTimerFires
  \/ AvSessionFinalized
  \/ AvRequestSettles
  \/ AvStartListeningCall
  \/ AvStartListeningResume(TRUE)
  \/ AvStopListeningCall
  \/ AvStopListeningResume(TRUE)
  \/ Tick(TickAssembly, MaxTimeAssembly)

SpecAssembly ==
  /\ Init /\ [][NextAssembly]_vars
  /\ WF_vars(AvTimerFires) /\ WF_vars(AvSessionFinalized) /\ WF_vars(AvRequestSettles)

\* VoiceDetector of page.tsx alone with the clock running: sessions end by
\* the silence timer or by stopListening, after less or more than
\* MIN_RECORDING_DURATION, creating the Blob may fail, and the clips may be
\* cleared at any time they are shown.
NextClips ==
  \/ DetectorInitializeVoiceDetector("ok")
  \/ \E p \in DetectorProbs : DetectorHandleVoiceProbability(p, "ok")
  \/ \E d \in vd_silenceTimers : DetectorSilenceTimeout(d)
  \/ \E r \in Recs, size \in {0, 1} : DetectorOnDataAvailable(r, size)
  \/ \E r \in Recs, size \in {0, 1}, made \in BOOLEAN :
       DetectorRecorderStopTask(r, size, made)
  \/ DetectorStartListeningCall
  \/ DetectorStartListeningResume(TRUE)
  \/ DetectorStopListeningCall
  \/ DetectorStopListeningResume(TRUE)
  \/ DetectorClearRecordings
  \/ Tick(TickClips, MaxTimeClips)

SpecClips == Init /\ [][NextClips]_vars
\* ---------------------------------------------------------------- properties
\* C1: at most one MediaRecorder is in state "recording" at any time,
\* whatever the interleaving of samples, timer firings, recorder stop events
\* and startListening/stopListening calls.
C1_AtMostOneRecording ==
  Cardinality({r \in Recs : recState[r] = "recording"}) <= 1

\* C1 case: a first session was stopped by a timer or by stopListening and
\* finalized, a second one is recording, and a voiced sample has met it
\* (it cancelled that session's silence timer instead of starting a recorder).
C1_SecondSessionRecording ==
  /\ recState[1] = "inactive" /\ onstops[1] = 1
  /\ recState[2] = "recording" /\ isRecordingRef
  /\ debounced

\* a sample at or above the threshold is delivered to the cobra callback
VoicedSample ==
  \E p \in Probs, o \in StartOutcomes :
    p >= VOICE_PROBABILITY_THRESHOLD /\ HandleVoiceProbability(p, o)

\* a session is recording and a sub-threshold run has armed the silence timer
DipInSession ==
  /\ isRecordingRef
  /\ mediaRecorderRef # 0 /\ recState[mediaRecorderRef] = "recording"
  /\ silenceTimeoutRef # Null /\ silenceTimeoutRef \in silenceTimers

\* C2: a voiced sample that arrives while the silence timer of a recording
\* session is armed cancels the timer (no timer is left that could stop the
\* session), issues no stop, and leaves the same recorder recording: the dip
\* does not split the utterance.
C2_DipDoesNotSplit ==
  [][(VoicedSample /\ DipInSession) =>
       /\ silenceTimers' = {} /\ silenceTimeoutRef' = Null
       /\ mediaRecorderRef' = mediaRecorderRef
       /\ recState' = recState /\ isRecordingRef'
       /\ stopTask' = stopTask /\ onstops' = onstops
       /\ nRec' = nRec /\ jobs' = jobs
       /\ recordingStartTimeRef' = recordingStartTimeRef]_vars

\* C2 case: the session's silence timer was armed and a voiced sample
\* cancelled it; the session is still recording with no timer armed.
C2_DipSurvived ==
  /\ debounced /\ isRecordingRef
  /\ mediaRecorderRef # 0 /\ recState[mediaRecorderRef] = "recording"
  /\ silenceTimeoutRef = Null /\ silenceTimers = {}
  /\ stopAttempts = {}

\* C3: a voiced run shorter than MIN_RECORDING_DURATION followed by sustained
\* silence produces zero clips: whenever the onstop handler of a session that
\* the silence timer stopped hands a clip to processAndSendAudio, some sample
\* at least MIN_RECORDING_DURATION after the session's start was voiced.
C3_ShortRunNoClip ==
  [][(SessionFinalized /\ Len(jobs') > Len(jobs) /\ stopBy = "silence")
       => voicedPastMin]_vars

\* C4: while a session records, its max-duration timer is armed for exactly
\* MAX_RECORDING_DURATION after its start and the clock never passes it,
\* whatever the silence timer does; when it fires on the recording session it
\* stops it at that instant; and once the onstop handler of a session stopped
\* by the max-duration timer has run, a voiced sample received while listening
\* starts a new session.
C4_MaxDurationStop ==
  /\ [](\A r \in Recs : recState[r] = "recording" =>
          /\ mediaRecorderRef = r /\ isRecordingRef
          /\ maxTimer[r] = (recordingStartTimeRef - Epoch) + MAX_RECORDING_DURATION
          /\ now <= maxTimer[r])
  /\ [][\A r \in Recs : (RecordingTimeout(r) /\ recState[r] = "recording") =>
          /\ DateNow = recordingStartTimeRef + MAX_RECORDING_DURATION
          /\ recState'[r] = "inactive" /\ stopTask'[r] = 1
          /\ stopBy' = "max"]_vars
  /\ [][(VoicedSample /\ isListeningRef /\ ~isRecordingRef
           /\ mediaRecorderRef # 0 /\ stopBy = "max"
           /\ onstops[mediaRecorderRef] = 1) =>
          /\ nRec' = nRec + 1 /\ mediaRecorderRef' = nRec'
          /\ recState'[nRec'] = "recording" /\ isRecordingRef'
          /\ recordingStartTimeRef' = DateNow]_vars

\* C4 case: the first session started when the clock was 0, the max-duration
\* timer stopped it, its onstop handler ran, and the second session started
\* at that same instant, MAX_RECORDING_DURATION after the first.
C4_RestartedAfterMax ==
  /\ stopBy = "max" /\ onstops[1] = 1
  /\ recState[2] = "recording"
  /\ recordingStartTimeRef = Epoch + MAX_RECORDING_DURATION

\* C5: every session is finalized exactly once, whoever tries to stop it and
\* in whatever order: a stopped recorder has exactly one stop task that is
\* queued or has run its onstop handler, never more, and at most one clip is
\* submitted for a session, by that handler.
C5_FinalizedOnce ==
  \A r \in Recs :
    /\ onstops[r] <= 1
    /\ stopTask[r] + onstops[r] <= 1
    /\ recState[r] = "inactive" => stopTask[r] + onstops[r] = 1
    /\ Cardinality({j \in 1..Len(jobs) : jobs[j].session = r}) <= onstops[r]

\* C5 case: the silence timer, the max-duration timer and stopListening have
\* all called stopRecording for the current session, and its onstop handler
\* has run.
C5_ThreeStoppersRaced ==
  /\ mediaRecorderRef # 0
  /\ stopAttempts = {"silence", "max", "listen"}
  /\ onstops[mediaRecorderRef] = 1

\* the jobs whose transcripts the accumulated transcript holds, in the order
\* it holds them (the tokens between the spaces)
Merged ==
  IF transcription = <<>>
    THEN <<>>
    ELSE SelectSeq(transcription[1].transcript, LAMBDA x : <<x>> # Space)

JobIds == 1..Len(jobs)
\* the request of a job has been sent and has not settled
InFlight == {j \in JobIds : jobs[j].status = "fetching"}

\* C6: the transcripts of the clips appear in the accumulated transcript in
\* the order the clips were submitted, each at most once, whenever the
\* responses arrive.
C6_MergedInSubmissionOrder ==
  \A i, k \in 1..Len(Merged) : i < k => Merged[i] < Merged[k]

\* C6 case: clips 2 and 3 were submitted while the clip before them was still
\* being processed, and all three were merged.
C6_ThreeMerged ==
  /\ Len(jobs) >= 3
  /\ jobs[2].waited /\ jobs[3].waited
  /\ Merged = <<1, 2, 3>>

\* C7: at most one request is in flight; a clip's processing has begun only
\* if the processing of every clip submitted before it has completed; and a
\* clip can be submitted whatever the state of the earlier ones.
C7_OneInFlight ==
  /\ Cardinality(InFlight) <= 1
  /\ \A j \in JobIds : jobs[j].status # "queued" =>
       \A i \in 1..(j - 1) : jobs[i].promise # "pending"
  /\ Len(jobs) < MaxJobs => ENABLED SubmitClip

\* C7 case: the first clip's request is in flight and two clips submitted
\* after it are waiting behind it.
C7_TwoWaitBehindRequest ==
  /\ Len(jobs) >= 3
  /\ jobs[1].status = "fetching"
  /\ jobs[2].status = "queued" /\ jobs[2].waited
  /\ jobs[3].status = "queued" /\ jobs[3].waited

\* C8: the chain is never rejected and no job is skipped because of an
\* earlier failure; a failed job's transcript is not in the accumulated
\* transcript; a queued job whose predecessors have completed can be
\* processed; and the step in which a job fails records the failure in
\* `error`, leaves the transcript alone and fulfils the job's promise.
C8_FailureIsContained ==
  /\ [](\A j \in JobIds :
          /\ jobs[j].promise # "rejected" /\ jobs[j].status # "poisoned"
          /\ jobs[j].status = "failed" => \A i \in 1..Len(Merged) : Merged[i] # j
          /\ (jobs[j].status = "queued"
                /\ \A i \in 1..(j - 1) : jobs[i].promise # "pending")
               => ENABLED NewProcessingBegin(j, TRUE))
  /\ [][\A j \in JobIds :
          (jobs[j].status # "failed" /\ jobs'[j].status = "failed") =>
            /\ error' \in (FetchOutcomes \ {"ok"}) \cup {"decode"}
            /\ transcription' = transcription
            /\ jobs'[j].promise = "fulfilled"]_vars

\* C8 case: the first job failed and the job submitted behind it, while it
\* was still being processed, succeeded and is the only one merged.
C8_SuccessAfterFailure ==
  /\ Len(jobs) >= 2
  /\ jobs[1].status = "failed" /\ error # NoError
  /\ jobs[2].waited /\ jobs[2].status = "succeeded"
  /\ Merged = <<2>>

\* C9: the onstop handler leaves the recorder idle without waiting for the
\* clip it submits; the session of a request in flight is over; and a voiced
\* sample received while listening with no session active starts a recorder
\* at once although a request is in flight (unless the recorder itself fails
\* to start, which is reported).
C9_CaptureNotDelayed ==
  /\ [](\A j \in InFlight :
          /\ recState[jobs[j].session] = "inactive"
          /\ onstops[jobs[j].session] = 1
          /\ isRecordingRef => mediaRecorderRef # jobs[j].session)
  /\ [][SessionFinalized =>
          /\ ~isRecordingRef'
          /\ \A j \in 1..Len(jobs') : j > Len(jobs) => jobs'[j].status = "queued"]_vars
  /\ [][\A o \in StartOutcomes :
          (HandleVoiceProbability(VOICE_PROBABILITY_THRESHOLD, o)
             /\ InFlight # {} /\ isListeningRef /\ ~isRecordingRef /\ streamRef) =>
            IF o = "ok"
              THEN /\ nRec' = nRec + 1 /\ mediaRecorderRef' = nRec'
                   /\ recState'[nRec'] = "recording" /\ isRecordingRef'
                   /\ recordingStartTimeRef' = DateNow
              ELSE error' = "Failed to start recording" /\ ~isRecordingRef']_vars

\* C9 case: the request for the first session's clip is in flight and the
\* second session is recording.
C9_RecordingDuringRequest ==
  /\ \E j \in InFlight : jobs[j].session = 1
  /\ recState[2] = "recording" /\ isRecordingRef /\ mediaRecorderRef = 2

\* C10: in the page.tsx variant, a voiced sample received while listening,
\* while the transcription request of a finalized clip is in flight, starts a
\* new recording session.
C10_PageCaptureNotDelayed ==
  [][(PageHandleVoiceProbability(PAGE_VOICE_PROBABILITY_THRESHOLD, "ok")
        /\ (\E r \in Recs : pg_onstop[r] = "fetching")
        /\ pg_isListeningRef /\ pg_streamRef) =>
       /\ pg_nRec' = pg_nRec + 1
       /\ pg_recState'[pg_nRec'] = "recording"]_vars

\* C11: once the unmount cleanup has run, no silence timer and no
\* max-duration timer is left armed, so no timer callback can run afterwards.
C11_NoTimerAfterRelease ==
  released => /\ silenceTimers = {}
              /\ \A r \in Recs : maxTimer[r] = Null

\* stopListening resumes after unsubscribe while a session is recording
StopListeningInSession ==
  /\ StopListeningResume(TRUE)
  /\ isRecordingRef
  /\ mediaRecorderRef # 0 /\ recState[mediaRecorderRef] = "recording"

\* the onstop handler of recorder r, run with a last chunk of `size`, hands
\* over exactly the session's chunks as one clip
ClipHandedOver(r, size) ==
  /\ Len(jobs') = Len(jobs) + 1
  /\ jobs'[Len(jobs')].session = r
  /\ jobs'[Len(jobs')].blob = (IF size > 0 THEN Append(chunksRef, NextChunk(r)) ELSE chunksRef)
  /\ SubSeq(jobs', 1, Len(jobs)) = jobs

C13_StartOnlyFromReady ==
  [][pendingStart' > pendingStart => (isInitialized /\ ~isListeningRef)]_vars

\* the duration the onstop handler computes (part_001:310-312)
ElapsedAtStop == DateNow - (IF recordingStartTimeRef # Null THEN recordingStartTimeRef ELSE 0)

\* the clips handed over for session r
ClipsOf(r) == {j \in 1..Len(jobs) : jobs[j].session = r}

\* C19 as stated: the onstop handler hands over one clip whenever the elapsed
\* duration is at least MIN_RECORDING_DURATION, and none below it.
C19_ClipIffLongEnough ==
  [][\A r \in Recs, size \in {0, 1} :
       RecorderStopTask(r, size) =>
         /\ chunksRef' = <<>>
         /\ IF ElapsedAtStop >= MIN_RECORDING_DURATION
              THEN Cardinality(ClipsOf(r))' = 1
              ELSE Cardinality(ClipsOf(r))' = 0]_vars

\* C19: a finalized session whose elapsed duration is at least
\* MIN_RECORDING_DURATION and which captured at least one non-empty chunk
\* hands over exactly one clip, made of its chunks in order; any other
\* finalized session hands over none; in both cases the chunk sequence is
\* emptied, and a session never has more than one clip.
C19_ClipPerFinalizedSession ==
  /\ [](\A r \in Recs : Cardinality(ClipsOf(r)) <= onstops[r] /\ onstops[r] <= 1)
  /\ [][\A r \in Recs, size \in {0, 1} :
          RecorderStopTask(r, size) =>
            /\ chunksRef' = <<>>
            /\ IF ElapsedAtStop >= MIN_RECORDING_DURATION
                    /\ (size > 0 \/ Len(chunksRef) > 0)
                 THEN /\ ClipHandedOver(r, size)
                      /\ Cardinality(ClipsOf(r))' = 1
                 ELSE /\ jobs' = jobs
                      /\ Cardinality(ClipsOf(r))' = 0]_vars

\* C19 case: the first session was finalized and handed over nothing; the
\* second was finalized and handed over its one clip.
C19_ShortDroppedLongSubmitted ==
  /\ onstops[1] = 1 /\ onstops[2] = 1
  /\ ClipsOf(1) = {}
  /\ Cardinality(ClipsOf(2)) = 1

C14_FailedInitNeverStarts ==
  /\ []((initRun /\ ~isInitialized) =>
          /\ error # NoError
          /\ ~ENABLED StartListeningCall
          /\ pendingStart = 0 /\ ~isListeningRef
          /\ nRec = 0 /\ ~isRecordingRef)
  /\ []((vd_initRun /\ ~vd_isInitialized) =>
          /\ vd_error # NoError
          /\ ~ENABLED DetectorStartListeningCall
          /\ vd_pendingStart = 0 /\ ~vd_isListeningRef
          /\ vd_nRec = 0 /\ ~vd_isRecordingRef)
  /\ [][(initRun /\ ~isInitialized => ~isInitialized')
          /\ (vd_initRun /\ ~vd_isInitialized => ~vd_isInitialized')]_vars
  /\ [][\A o \in DetectorInitOutcomes \ {"ok"} :
          DetectorInitializeVoiceDetector(o) => ~vd_isInitialized' /\ vd_error' # NoError]_vars
  /\ [][\A o \in InitOutcomes \ {"ok"} :
          InitializeVoiceDetector(o) => ~isInitialized' /\ error' # NoError]_vars

\* C14 case: Part I was denied the microphone and VoiceDetector found no
\* access key; both display their error and neither is initialized.
C14_BothFailed ==
  /\ initRun /\ ~isInitialized /\ ~streamRef /\ error = "micDenied"
  /\ vd_initRun /\ ~vd_isInitialized
  /\ vd_error = "Picovoice access key is not configured in environment variables"

\* C15: an onVoiceStart event received while the current recorder is
\* recording creates no recorder and leaves the session's start time and
\* chunk sequence as they are.
C15_VoiceStartKeepsSession ==
  [][\A v \in 1..MaxVads :
       (IndexOnVoiceStart(v) /\ ix_mediaRecorderRef # 0
          /\ ix_recState[ix_mediaRecorderRef] = "recording") =>
         /\ ix_nRec' = ix_nRec
         /\ ix_mediaRecorderRef' = ix_mediaRecorderRef
         /\ ix_currentRecordingStartTime' = ix_currentRecordingStartTime
         /\ ix_audioChunksRef' = ix_audioChunksRef]_vars

\* C16: the audio message that takes a connection's buffer over
\* MAX_BUFFER_SIZE is answered with an error and discards the buffer (or
\* closes the connection), and no processAudio call is ever made with more
\* than MAX_BUFFER_SIZE bytes.
C16_OverflowResets ==
  /\ [](\A k \in 1..Len(sv_requests) : sv_requests[k].size <= MAX_BUFFER_SIZE)
  /\ [][\A c \in Conns :
          (\E len \in ChunkLens : ServerAudioMessage(c, len)
             /\ TotalSize(sv_buffer[c]) + len > MAX_BUFFER_SIZE) =>
            /\ sv_out'[c] = Append(sv_out[c], ErrorMessage)
            /\ (sv_buffer'[c] = <<>> \/ sv_sock'[c] # "open")]_vars

\* the chunks connection c has handed to processAudio and those it still
\* buffers, in that order
RECURSIVE Relayed(_, _)
Relayed(c, k) ==
  IF k = 0 THEN <<>>
  ELSE Relayed(c, k - 1) \o (IF sv_requests[k].conn = c THEN sv_requests[k].audio ELSE <<>>)
ChunksOf(c) == Relayed(c, Len(sv_requests)) \o ChunkIds(sv_buffer[c])

\* an audio message on connection c that keeps its buffer within
\* MAX_BUFFER_SIZE
AudioWithinCap(c) ==
  \E len \in ChunkLens :
    ServerAudioMessage(c, len) /\ TotalSize(sv_buffer[c]) + len <= MAX_BUFFER_SIZE

C18_SweepDropsSilentOnly ==
  [][ServerSweep =>
       \A c \in sv_clients :
         /\ (sv_swept[c] /\ ~sv_pinged[c]) =>
              (c \notin sv_clients' /\ sv_sock'[c] = "terminated")
         /\ sv_pinged[c] => (c \in sv_clients' /\ sv_sock'[c] = "open")]_vars

\* C18 case: after the second sweep, the first connection, which sent no
\* 'ping', has been terminated, and the second, which sent one in each
\* interval, is still in the table.
C18_SilentDroppedPingingKept ==
  /\ sv_nextSweep = 3 * PING_INTERVAL
  /\ sv_sock[1] = "terminated" /\ 1 \notin sv_clients
  /\ sv_sock[2] = "open" /\ 2 \in sv_clients /\ sv_swept[2]


\* stop() has been called on a recorder and its onstop handler has not run
MidFinalization == \E r \in Recs : stopTask[r] > 0

\* C21: a voiced sample that arrives after a session's stop was requested and
\* before its onstop handler has run is evaluated (no silence timer is left
\* armed after it) but creates no recorder and leaves the pending stop task
\* alone; and a recorder is created only when no recorder is recording or
\* between its stop and its onstop handler.
C21_NoStartMidFinalization ==
  /\ [][(VoicedSample /\ MidFinalization) =>
          /\ silenceTimeoutRef' = Null /\ silenceTimers' = {}
          /\ nRec' = nRec /\ mediaRecorderRef' = mediaRecorderRef
          /\ recState' = recState /\ isRecordingRef'
          /\ stopTask' = stopTask /\ chunksRef' = chunksRef
          /\ recordingStartTimeRef' = recordingStartTimeRef]_vars
  /\ [][nRec' > nRec =>
          /\ ~MidFinalization
          /\ \A r \in Recs : recState[r] # "recording"]_vars

\* C21 case: the first session started when the clock was 0 and the silence
\* timer armed then stopped it one threshold later, so no voiced sample came
\* in between; a voiced sample has arrived since (at least
\* MIN_RECORDING_DURATION after the start, hence after the stop), the stop
\* task is still queued and no second recorder was created.
C21_VoicedWhileStopping ==
  /\ now = SILENCE_DURATION_THRESHOLD /\ recordingStartTimeRef = Epoch
  /\ stopBy = "silence" /\ voicedPastMin
  /\ mediaRecorderRef = 1 /\ nRec = 1
  /\ recState[1] = "inactive" /\ stopTask[1] = 1 /\ onstops[1] = 0
  /\ isRecordingRef /\ isListeningRef
  /\ silenceTimeoutRef = Null /\ silenceTimers = {}

\* a sample below the threshold is delivered to the cobra callback
SubThresholdSample ==
  \E p \in Probs, o \in StartOutcomes :
    p < VOICE_PROBABILITY_THRESHOLD /\ HandleVoiceProbability(p, o)

\* C22: at most one silence timer is armed at any time, and it is the one
\* silenceTimeoutRef holds; a sub-threshold sample received while a silence
\* timer is armed leaves the set of armed timers and the held handle, hence
\* the expiry, as they were.
C22_OneSilenceTimer ==
  /\ [](/\ Cardinality(silenceTimers) <= 1
        /\ \A d \in silenceTimers : silenceTimeoutRef = d)
  /\ [][(SubThresholdSample /\ silenceTimers # {}) =>
          /\ silenceTimers' = silenceTimers
          /\ silenceTimeoutRef' = silenceTimeoutRef]_vars

\* C22 case: the session's silence timer was armed when the clock was 0 and
\* is still the only one armed, with its expiry unchanged, one threshold
\* later, when it is due and a further sub-threshold sample can arrive (the
\* sample changes nothing, so this is also the state after it).
C22_ArmedTimerMeetsSample ==
  /\ now = SILENCE_DURATION_THRESHOLD
  /\ isRecordingRef /\ mediaRecorderRef # 0 /\ recState[mediaRecorderRef] = "recording"
  /\ silenceTimers = {SILENCE_DURATION_THRESHOLD}
  /\ silenceTimeoutRef = SILENCE_DURATION_THRESHOLD
  /\ ENABLED (SubThresholdSample /\ silenceTimers # {})

\* no session is active: no recorder records or awaits its onstop handler
RecorderIdle ==
  /\ ~isRecordingRef
  /\ \A r \in Recs : recState[r] # "recording" /\ stopTask[r] = 0

\* C23: with no voiced sample while a silence timer is armed, the clock never
\* passes the expiry of an armed silence timer; when the timer fires on a
\* recording session it stops the recorder in that step and queues its stop
\* task; and from every state in which a session is recording with its
\* silence timer armed, the recorder eventually is idle with the session's
\* onstop handler run and no silence timer armed.
C23_SilenceStopsSession ==
  /\ [](\A d \in silenceTimers : now <= d)
  /\ [][\A d \in silenceTimers :
          (SilenceTimeout(d) /\ mediaRecorderRef # 0
             /\ recState[mediaRecorderRef] = "recording") =>
            /\ now = d
            /\ recState'[mediaRecorderRef] = "inactive"
            /\ stopTask'[mediaRecorderRef] = 1
            /\ silenceTimeoutRef' = Null]_vars
  /\ \A r \in Recs :
       (DipInSession /\ mediaRecorderRef = r)
         ~> (RecorderIdle /\ onstops[r] = 1
               /\ silenceTimers = {} /\ silenceTimeoutRef = Null)

\* C23 case: the silence timer armed at the first session's start fired one
\* threshold later and stopped it, the onstop handler has run, and the
\* recorder is idle with no silence timer armed.
C23_StoppedBySilence ==
  /\ now = SILENCE_DURATION_THRESHOLD /\ stopBy = "silence"
  /\ recState[1] = "inactive" /\ onstops[1] = 1
  /\ RecorderIdle
  /\ silenceTimers = {} /\ silenceTimeoutRef = Null

\* C24: in every voice-probability component a sample exactly at the
\* threshold is handled as voiced: in RealtimeSpeechToText and in VoiceDetector
\* of page.tsx, received while listening with no session active, it starts a
\* recorder; in VoiceDetector of speech2tex.tsx it is reported through
\* onVoiceDetected, which only the voiced branch calls.
C24_ThresholdIsVoiced ==
  [][/\ (HandleVoiceProbability(VOICE_PROBABILITY_THRESHOLD, "ok")
           /\ isListeningRef /\ ~isRecordingRef /\ streamRef)
          => (nRec' = nRec + 1 /\ isRecordingRef')
     /\ (DetectorHandleVoiceProbability(VD_VOICE_PROBABILITY_THRESHOLD, "ok")
           /\ vd_isListeningRef /\ ~vd_isRecordingRef /\ vd_streamRef)
          => (vd_nRec' = vd_nRec + 1 /\ vd_isRecordingRef')
     /\ SdHandleVoiceProbability(SD_VOICE_PROBABILITY_THRESHOLD, "ok")
          => SD_VOICE_PROBABILITY_THRESHOLD \in sd'.voiceDetected]_vars

\* ---------------------------------------------------------------- C25
\* the clip of session r is in audioClips and is being transcribed
AvTranscribing(r) ==
  \E k \in 1..Len(av.audioClips) :
    av.audioClips[k].session = r /\ av.audioClips[k].isTranscribing
\* the clip of session r has left the transcribing state with a result
AvSettled(r) ==
  \E k \in 1..Len(av.audioClips) :
    /\ av.audioClips[k].session = r
    /\ ~av.audioClips[k].isTranscribing
    /\ \/ av.audioClips[k].transcription # NoText
       \/ av.audioClips[k].transcriptionError # NoError
\* a step in which a transcription request settles
AvSettleStep == av'.inFlight # av.inFlight /\ av'.inFlight \subseteq av.inFlight

\* C25: every clip handed to transcribeAudio eventually stops transcribing
\* with a transcription or a transcriptionError recorded on it, also when the
\* AssemblyAI client is not configured; and the settling of one clip's
\* request changes no other clip and nothing of the listening session.
C25_EveryClipSettles ==
  /\ \A r \in Recs :
       AvTranscribing(r) ~> AvSettled(r)
  /\ [][AvSettleStep =>
          /\ Len(av'.audioClips) = Len(av.audioClips)
          /\ \A k \in 1..Len(av.audioClips) :
               av.audioClips[k].id \in av'.inFlight \/ av.audioClips[k].id \notin av.inFlight
                 => av'.audioClips[k] = av.audioClips[k]
          /\ av'.isListeningRef = av.isListeningRef
          /\ av'.isRecordingRef = av.isRecordingRef
          /\ av'.mediaRecorderRef = av.mediaRecorderRef
          /\ av'.recState = av.recState
          /\ av'.audioChunksRef = av.audioChunksRef
          /\ av'.silenceTimers = av.silenceTimers
          /\ av'.error = av.error]_vars

\* ---------------------------------------------------------------- C27
\* the first n non-empty chunks recorder r delivered, in arrival order
SessionChunks(r, n) == [k \in 1..n |-> <<r, k>>]

\* C27: the clip handed over for a session is made of exactly the non-empty
\* chunks its recorder delivered during that session, in arrival order: when
\* the onstop handler of recorder r hands a clip over, the clip is the chunks
\* 1..n of r, n being the number of non-empty chunks r delivered, the last one
\* included; so every clip holds chunks of one session only, none twice and
\* none missing, and no session has two clips.
C27_ClipIsSessionChunks ==
  /\ [][\A r \in Recs, size \in {0, 1} :
          (RecorderStopTask(r, size) /\ jobs' # jobs) =>
            /\ Len(jobs') = Len(jobs) + 1
            /\ SubSeq(jobs', 1, Len(jobs)) = jobs
            /\ jobs'[Len(jobs')].session = r
            /\ jobs'[Len(jobs')].blob = SessionChunks(r, delivered[r] + size)]_vars
  /\ [](\A j \in 1..Len(jobs) :
          /\ Len(jobs[j].blob) > 0
          /\ jobs[j].blob = SessionChunks(jobs[j].session, Len(jobs[j].blob))
          /\ \A i \in 1..Len(jobs) : jobs[i].session = jobs[j].session => i = j)
  /\ [](\A r \in Recs :
          delivered[r] > 0 => r = mediaRecorderRef /\ recState[r] # "none"
                                /\ onstops[r] = 0)

\* C27 witness: the second session's clip holds two chunks, a timeslice chunk
\* and the last one, after the first session's clip was handed over
C27_TwoChunkClipOfSecondSession ==
  \E i, j \in 1..Len(jobs) :
    /\ jobs[i].session = 1
    /\ jobs[j].session = 2
    /\ jobs[j].blob = <<<<2, 1>>, <<2, 2>>>>

\* ---------------------------------------------------------------- C28
\* a voiced sample, received while listening with no session in progress,
\* calls startRecording, whose try block ends with `outcome`
StartAttempt(outcome) ==
  /\ ~isRecordingRef /\ isListeningRef /\ streamRef
  /\ mediaRecorderRef # 0 => recState[mediaRecorderRef] # "recording"
  /\ \E p \in Probs : /\ p >= VOICE_PROBABILITY_THRESHOLD
                      /\ HandleVoiceProbability(p, outcome)

\* C28: when the MediaRecorder cannot be created or started, startRecording
\* shows "Failed to start recording" and leaves the recorder idle
\* (isRecordingRef false, no recorder recording or stopping, no max-duration
\* timer armed) and the component listening; and whenever startRecording runs
\* without failing, after a failure too, a session starts as usual.
C28_FailedStartLeavesIdle ==
  /\ [][\A outcome \in {"ctorThrows", "startThrows"} :
          StartAttempt(outcome) =>
            /\ error' = "Failed to start recording"
            /\ ~isRecordingRef'
            /\ \A r \in Recs : /\ maxTimer'[r] = Null
                               /\ recState'[r] # "recording"
                               /\ stopTask'[r] = 0
            /\ recordingTimeoutRef' = 0
            /\ isListeningRef' /\ streamRef' /\ cobraRef'
            /\ jobs' = jobs]_vars
  /\ [][StartAttempt("ok") =>
          /\ nRec' = nRec + 1 /\ mediaRecorderRef' = nRec'
          /\ recState'[nRec'] = "recording"
          /\ isRecordingRef'
          /\ chunksRef' = <<>>
          /\ recordingStartTimeRef' = DateNow
          /\ recordingTimeoutRef' = nRec'
          /\ maxTimer'[nRec'] = now + MAX_RECORDING_DURATION
          /\ error' = error]_vars

\* C28 witness: the first recorder failed to start, the error is shown, and a
\* later voiced sample has started a session on a second recorder
C28_SessionAfterFailedStart ==
  /\ error = "Failed to start recording"
  /\ recState[1] = "inactive" /\ onstops[1] = 0 /\ stopTask[1] = 0
  /\ stopAttempts = {}
  /\ mediaRecorderRef = 2 /\ recState[2] = "recording"
  /\ isRecordingRef /\ isListeningRef
  /\ maxTimer[2] # Null

\* ---------------------------------------------------------------- C29
\* a step in which startRecording starts a session
SessionStarts == nRec' = nRec + 1 /\ recState'[nRec'] = "recording"
\* the clock value at which the session in progress started
SessionStart == recordingStartTimeRef - Epoch

\* C29: no session is stopped by a timer armed in an earlier session.  When a
\* session starts no silence timer is armed and the only max-duration timer
\* armed is its own; while its recorder records, every armed silence timer
\* was armed by a sample of this session and the armed max-duration timer
\* expires MAX_RECORDING_DURATION after its start; a forced stop comes no
\* sooner than that, and a debounced stop no sooner than
\* SILENCE_DURATION_THRESHOLD after the sample of this session that armed the
\* timer.
C29_NoStaleTimerStops ==
  /\ [][SessionStarts =>
          /\ silenceTimers' = {} /\ silenceTimeoutRef' = Null
          /\ \A r \in Recs : maxTimer'[r] # Null => r = nRec']_vars
  /\ [](\A r \in Recs : recState[r] = "recording" =>
          /\ r = mediaRecorderRef /\ recordingStartTimeRef # Null
          /\ \A d \in silenceTimers : d - SILENCE_DURATION_THRESHOLD >= SessionStart
          /\ \A q \in Recs : maxTimer[q] # Null =>
               q = r /\ maxTimer[q] = SessionStart + MAX_RECORDING_DURATION)
  /\ [][\A r \in Recs :
          (recState[r] = "recording" /\ recState'[r] = "inactive") =>
            /\ stopBy' = "max" =>
                 /\ maxTimer[r] # Null /\ now >= maxTimer[r]
                 /\ now >= SessionStart + MAX_RECORDING_DURATION
            /\ stopBy' = "silence" =>
                 \E d \in silenceTimers \ silenceTimers' :
                   /\ now >= d
                   /\ d - SILENCE_DURATION_THRESHOLD >= SessionStart]_vars

\* C29 witness: the second session, started after the first one was
\* finalized, has been stopped by its own silence timer
C29_SecondSessionDebounced ==
  /\ onstops[1] = 1
  /\ mediaRecorderRef = 2 /\ recState[2] = "inactive" /\ stopTask[2] = 1
  /\ stopBy = "silence"
  /\ now - SessionStart >= SILENCE_DURATION_THRESHOLD

\* ---------------------------------------------------------------- C30
\* some MediaRecorder is in state "recording"
SomeRecording == \E r \in Recs : recState[r] = "recording"

\* C30: while a MediaRecorder is in state "recording" it is the one
\* mediaRecorderRef holds and isRecordingRef is true; and isRecordingRef is
\* true with no recorder recording only while the stop task of the held
\* recorder is queued, that is, after stop() and before its onstop handler
\* has run.
C30_FlagTracksRecorder ==
  /\ \A r \in Recs : recState[r] = "recording" => isRecordingRef /\ r = mediaRecorderRef
  /\ (isRecordingRef /\ ~SomeRecording) =>
       /\ mediaRecorderRef # 0
       /\ recState[mediaRecorderRef] = "inactive"
       /\ stopTask[mediaRecorderRef] > 0
       /\ onstops[mediaRecorderRef] = 0
  /\ \A r \in Recs : onstops[r] > 0 /\ stopTask[r] = 0 /\ r = mediaRecorderRef
                       => ~isRecordingRef

\* C30 witness: the max-duration timer has stopped the recorder and its onstop
\* handler has not run yet: the flag is still true
C30_FlagTrueWhileStopping ==
  /\ isRecordingRef /\ ~SomeRecording
  /\ stopBy = "max"
  /\ stopTask[mediaRecorderRef] = 1

\* ---------------------------------------------------------------- C31
\* C31: a voiced sample received while the component is not listening
\* (isListeningRef false: before startListening has completed, or after
\* stopListening has) starts no session: no recorder is created or started,
\* isRecordingRef and the max-duration timers stay as they were; and every
\* step that creates a recorder starts from a listening state.
C31_NoStartWhileNotListening ==
  /\ [][(~isListeningRef /\ VoicedSample) =>
          /\ nRec' = nRec /\ mediaRecorderRef' = mediaRecorderRef
          /\ recState' = recState /\ isRecordingRef' = isRecordingRef
          /\ maxTimer' = maxTimer /\ recordingTimeoutRef' = recordingTimeoutRef
          /\ chunksRef' = chunksRef
          /\ recordingStartTimeRef' = recordingStartTimeRef
          /\ ~isListeningRef']_vars
  /\ [][nRec' > nRec => isListeningRef]_vars

\* C31 case: stopListening has stopped the first session and completed, the
\* session is finalized, the detector is still initialized and delivers a
\* voiced sample to the component, which is not listening
C31_VoicedAfterStopListening ==
  /\ ~isListeningRef /\ cobraRef /\ streamRef
  /\ stopBy = "listen" /\ nRec = 1 /\ onstops[1] = 1
  /\ ~isRecordingRef
  /\ ENABLED (~isListeningRef /\ VoicedSample)

\* ---------------------------------------------------------------- C32
\* C32: a sub-threshold sample received while no session is in progress
\* (isRecordingRef false) changes nothing: no silence timer is armed, no
\* recorder is stopped, and the recorder, the chunks, the timers and the
\* listening state are as before.
C32_SilenceWhileIdleIsNoOp ==
  [][(~isRecordingRef /\ SubThresholdSample) =>
       /\ silenceTimers' = silenceTimers /\ silenceTimeoutRef' = silenceTimeoutRef
       /\ recState' = recState /\ stopTask' = stopTask /\ stopAttempts' = stopAttempts
       /\ mediaRecorderRef' = mediaRecorderRef /\ nRec' = nRec
       /\ chunksRef' = chunksRef /\ recordingStartTimeRef' = recordingStartTimeRef
       /\ maxTimer' = maxTimer /\ recordingTimeoutRef' = recordingTimeoutRef
       /\ ~isRecordingRef' /\ isListeningRef' = isListeningRef
       /\ jobs' = jobs /\ error' = error]_vars

\* C32 case: the component is listening, the first session is finalized, no
\* session is in progress and no timer is armed, and the detector delivers a
\* sub-threshold sample (the sample changes nothing, so this is also the
\* state after it)
C32_SilenceWhileIdle ==
  /\ isListeningRef /\ ~isRecordingRef /\ onstops[1] = 1 /\ nRec = 1
  /\ silenceTimers = {} /\ silenceTimeoutRef = Null
  /\ ENABLED (~isRecordingRef /\ SubThresholdSample)

\* ---------------------------------------------------------------- C33
\* the held recorder is recording
HeldRecorderRecording ==
  isRecordingRef /\ mediaRecorderRef # 0 /\ recState[mediaRecorderRef] = "recording"

\* C33: a voiced sample received while a session is recording only cancels the
\* silence timer: afterwards no silence timer is armed, and the session's
\* start time, its chunks, its max-duration timer, the recorder and its state
\* are as before; no stop is issued and no recorder is created.
C33_VoicedInSessionOnlyCancels ==
  [][(HeldRecorderRecording /\ VoicedSample) =>
       /\ silenceTimers' = {} /\ silenceTimeoutRef' = Null
       /\ recordingStartTimeRef' = recordingStartTimeRef
       /\ chunksRef' = chunksRef
       /\ maxTimer' = maxTimer /\ recordingTimeoutRef' = recordingTimeoutRef
       /\ mediaRecorderRef' = mediaRecorderRef /\ nRec' = nRec
       /\ recState' = recState /\ stopTask' = stopTask
       /\ isRecordingRef' /\ isListeningRef' = isListeningRef
       /\ jobs' = jobs]_vars

\* C33 case: some time into a session that holds a chunk, a voiced sample has
\* cancelled the armed silence timer; the session is still recording with its
\* start time and its max-duration timer
C33_SilenceTimerCancelledInSession ==
  /\ HeldRecorderRecording /\ debounced
  /\ silenceTimers = {} /\ silenceTimeoutRef = Null
  /\ Len(chunksRef) > 0
  /\ now > SessionStart
  /\ maxTimer[mediaRecorderRef] = SessionStart + MAX_RECORDING_DURATION

\* ---- C34 -------------------------------------------------------------------
\* the transcripts of the succeeded jobs among the first n submitted, in
\* submission order, joined by single spaces
RECURSIVE JoinSucceeded(_)
JoinSucceeded(n) ==
  IF n = 0 THEN <<>>
  ELSE IF jobs[n].status # "succeeded" THEN JoinSucceeded(n - 1)
  ELSE IF \E k \in 1..(n - 1) : jobs[k].status = "succeeded"
         THEN JoinSucceeded(n - 1) \o Space \o TranscriptOf(n)
         ELSE TranscriptOf(n)
\* the succeeded job submitted last
LastSucceeded ==
  CHOOSE j \in 1..Len(jobs) :
    /\ jobs[j].status = "succeeded"
    /\ \A k \in (j + 1)..Len(jobs) : jobs[k].status # "succeeded"
\* C34: after any sequence of jobs the accumulated transcript is the
\* single-space join of the transcripts of exactly the succeeded jobs in
\* submission order (failed jobs contribute nothing; it is null while no job
\* has succeeded), and the stored timestamps are those returned by the most
\* recently succeeded job.
C34_TranscriptIsJoinOfSucceeded ==
  /\ [](IF \A j \in 1..Len(jobs) : jobs[j].status # "succeeded"
          THEN transcription = <<>>
          ELSE /\ Len(transcription) = 1
               /\ transcription[1].transcript = JoinSucceeded(Len(jobs))
               /\ transcription[1].timestamps = LastSucceeded)
  /\ [][\A j \in 1..Len(jobs) :
         (jobs[j].status # "succeeded" /\ jobs'[j].status = "succeeded")
           => /\ Len(transcription') = 1
              /\ transcription'[1].timestamps = j]_vars
\* C34 witness: the first and third job succeeded and the second failed; the
\* transcript joins the first and third and the timestamps are the third's.
C34_FailedJobBetweenSucceeded ==
  /\ Len(jobs) = 3
  /\ jobs[1].status = "succeeded"
  /\ jobs[2].status = "failed"
  /\ jobs[3].status = "succeeded"
  /\ transcription = <<[transcript |-> TranscriptOf(1) \o Space \o TranscriptOf(3),
                        timestamps |-> 3]>>

\* ---- C35 -------------------------------------------------------------------
\* C35: in VoiceDetector, after any sequence of recordings and clearRecordings
\* calls, latestClip is null exactly when audioClips is empty and otherwise is
\* the first element of audioClips, the clips are ordered newest first, and
\* every clip lasted at least MIN_RECORDING_DURATION.
C35_LatestClipIsFirstClip ==
  /\ (vd_latestClip = <<>>) <=> (vd_audioClips = <<>>)
  /\ vd_audioClips # <<>> => vd_latestClip = <<vd_audioClips[1]>>
  /\ \A k, l \in 1..Len(vd_audioClips) :
       k < l => vd_audioClips[k].session > vd_audioClips[l].session
  /\ \A k \in 1..Len(vd_audioClips) :
       vd_audioClips[k].duration >= VD_MIN_RECORDING_DURATION
\* C35 witness: two recordings are kept, the second session's clip first and
\* as latestClip, the first session's clip lasting exactly
\* MIN_RECORDING_DURATION, and clearRecordings can be called.
C35_TwoClipsNewestFirst ==
  /\ Len(vd_audioClips) = 2
  /\ vd_audioClips[1].session = 2
  /\ vd_audioClips[2].session = 1
  /\ vd_audioClips[2].duration = VD_MIN_RECORDING_DURATION
  /\ vd_latestClip = <<vd_audioClips[1]>>
  /\ ENABLED DetectorClearRecordings

\* ---- C36 -------------------------------------------------------------------
\* connection c is open and its audio never went over MAX_BUFFER_SIZE
NoOverflowNoDisconnect(c) ==
  /\ sv_sock[c] = "open"
  /\ TotalSize(sv_buffer[c]) <= MAX_BUFFER_SIZE
  /\ \A k \in 1..Len(sv_requests) :
       sv_requests[k].conn = c => sv_requests[k].size <= MAX_BUFFER_SIZE
\* a processAudio call made for connection c has not settled
RequestInFlight(c) ==
  \E k \in 1..Len(sv_requests) :
    sv_requests[k].conn = c /\ sv_requests[k].status = "pending"
\* the number of places chunk id takes in the requests made and the buffers
RECURSIVE Occurrences(_, _)
Occurrences(id, k) ==
  IF k = 0
    THEN Cardinality({<<c, i>> \in Conns \X (1..MaxAudio) :
                        i <= Len(sv_buffer[c]) /\ sv_buffer[c][i].id = id})
    ELSE Occurrences(id, k - 1)
           + Cardinality({i \in 1..Len(sv_requests[k].audio) :
                            sv_requests[k].audio[i] = id})
\* C36: absent overflow and disconnect, every audio chunk received on a
\* connection is in exactly one transcription request or still buffered with
\* the processing timer armed; a chunk that arrives while an earlier request
\* of the connection is in flight is only buffered, the requests made stay as
\* they are, and the next timer callback sends the whole buffer as one new
\* request.
C36_EveryChunkInOneRequest ==
  /\ [](\A id \in 1..sv_nAudio : Occurrences(id, Len(sv_requests)) = 1)
  /\ [](\A c \in Conns :
          (NoOverflowNoDisconnect(c) /\ sv_buffer[c] # <<>>) => sv_timers[c] # {})
  /\ [][\A c \in Conns :
          (NoOverflowNoDisconnect(c) /\ RequestInFlight(c) /\ AudioWithinCap(c)) =>
            /\ sv_requests' = sv_requests
            /\ sv_buffer'[c] = Append(sv_buffer[c], sv_buffer'[c][Len(sv_buffer'[c])])
            /\ sv_buffer'[c][Len(sv_buffer'[c])].id = sv_nAudio'
            /\ sv_timers'[c] # {}]_vars
  /\ [][\A k \in 1..Len(sv_requests) :
          /\ Len(sv_requests') >= Len(sv_requests)
          /\ sv_requests'[k].audio = sv_requests[k].audio
          /\ sv_requests'[k].conn = sv_requests[k].conn]_vars
  /\ [][\A c \in Conns : \A d \in sv_timers[c] :
          (NoOverflowNoDisconnect(c) /\ ServerProcessingTimeout(c, d)) =>
            /\ sv_buffer[c] # <<>>
            /\ sv_requests' = Append(sv_requests, sv_requests'[Len(sv_requests')])
            /\ sv_requests'[Len(sv_requests')].conn = c
            /\ sv_requests'[Len(sv_requests')].audio = ChunkIds(sv_buffer[c])
            /\ sv_buffer'[c] = <<>>]_vars
\* C36 witness: the second chunk of a connection arrived while the request
\* holding the first was in flight, and has been sent in a request of its own
\* while the first is in flight still.
C36_ChunkSentWhileEarlierInFlight ==
  /\ Len(sv_requests) = 2
  /\ sv_requests[1] = [conn |-> 1, audio |-> <<1>>, size |-> MAX_BUFFER_SIZE \div 2,
                       status |-> "pending"]
  /\ sv_requests[2].conn = 1
  /\ sv_requests[2].audio = <<2>>
  /\ NoOverflowNoDisconnect(1)

\* ---- C37 -------------------------------------------------------------------
\* C37: once a connection has closed or errored and been removed from the
\* client table, no processing timer of it is armed, so none fires: no
\* processAudio call is made for its buffered audio, and no message is sent on
\* its socket.
C37_NoTimerAfterClose ==
  /\ [](\A c \in Conns :
          (sv_sock[c] \in {"closed", "terminated"} /\ c \notin sv_clients) =>
            sv_timers[c] = {})
  /\ [][\A c \in Conns : \A d \in sv_timers[c] :
          ServerProcessingTimeout(c, d) => sv_sock[c] = "open"]_vars
  /\ [][\A c \in Conns :
          sv_sock[c] \in {"closed", "terminated"} => sv_out'[c] = sv_out[c]]_vars

\* ---- C38 -------------------------------------------------------------------
\* the requests of the 'transcript' messages sent to connection c, in the
\* order they were sent
TranscriptsSent(c) ==
  LET sent == SelectSeq(sv_out[c], LAMBDA m : m.type = "transcript")
  IN [i \in 1..Len(sent) |-> sent[i].req]
\* C38: for each connection at most one processAudio call is in flight at a
\* time, and the 'transcript' messages are sent to the client in the order of
\* the quiet periods that produced them, i.e. the order the calls were made.
C38_OneRequestInFlight ==
  \A c \in Conns :
    /\ Cardinality({k \in 1..Len(sv_requests) :
                      sv_requests[k].conn = c /\ sv_requests[k].status = "pending"}) <= 1
    /\ \A i, j \in 1..Len(TranscriptsSent(c)) :
         i < j => TranscriptsSent(c)[i] < TranscriptsSent(c)[j]
====
